---- MODULE Spec2Model ----
(***************************************************************************)
(* Model of the ICARIA field-worker alert resolver (main.py, alerts.py,    *)
(* params.py).  The REDCap project is a table of rows keyed by record id   *)
(* and event; the resolver reads an exported snapshot (a pandas data       *)
(* frame), computes per alert the record ids to flag, and upserts the      *)
(* child_fu_status field of the status event.                              *)
(***************************************************************************)
EXTENDS Integers, Sequences, FiniteSets, TLC

VARIABLES
    prog,             \* which script runs: "main" (main.py) or "alerts" (alerts.py callers)
    table,            \* REDCap project rows per record id, child_fu_status excluded
    status,           \* REDCap project: child_fu_status at the status event, "" when blank
    df,               \* exported data frame: [rows, status, dtype]
    today,            \* datetime.today(): [day |-> days since 1970-01-01, frac |-> 0 or 1]
    blocked_records,  \* last value returned by get_record_ids_with_custom_status
    last,             \* last operation run and the import_records calls it issued
    pc,               \* position of the script
    nops              \* number of set_* operations run so far

vars == <<prog, table, status, df, today, blocked_records, last, pc, nops>>

-----------------------------------------------------------------------------
(* Bounds of the model *)

NumParticipants == 2
MaxOps == 2

\* record ids of the project; 8040172 is one of params.azivac_blocked_records
Participants == {8040170 + i : i \in 1..NumParticipants}

-----------------------------------------------------------------------------
(* Python / pandas values *)

\* None, NaN and NaT of a cell holding a string: the empty tuple; a string s: <<s>>
NaN == <<>>
Str(s) == <<s>>
\* an optional pandas Index: None, or the record ids it holds
None == [none |-> TRUE, ids |-> {}]
Index(S) == [none |-> FALSE, ids |-> S]

\* str(x) of a status cell: str(float('nan')) is 'nan'
PyStr(cell) == IF cell = NaN THEN "nan" ELSE cell[1]

\* a row's field; a field the row does not hold is NaN in the data frame
Has(r, f) == f \in DOMAIN r

startswith(s, p) == Len(s) >= Len(p) /\ SubSeq(s, 1, Len(p)) = p
endswith(s, p) == Len(s) >= Len(p) /\ SubSeq(s, Len(s) - Len(p) + 1, Len(s)) = p
contains(s, p) == \E i \in 1..(Len(s) - Len(p) + 1) : SubSeq(s, i, i + Len(p) - 1) = p

\* s.split(sep)[0]
SplitFirst(s, sep) ==
    IF contains(s, sep)
    THEN LET i == CHOOSE k \in 1..(Len(s) - Len(sep) + 1) :
                    /\ SubSeq(s, k, k + Len(sep) - 1) = sep
                    /\ \A j \in 1..(k - 1) : SubSeq(s, j, j + Len(sep) - 1) # sep
         IN SubSeq(s, 1, i - 1)
    ELSE s

\* s.replace(old, new), left to right, non-overlapping
RECURSIVE Replace(_, _, _)
Replace(s, old, new) ==
    IF Len(s) < Len(old) THEN s
    ELSE IF SubSeq(s, 1, Len(old)) = old
         THEN new \o Replace(SubSeq(s, Len(old) + 1, Len(s)), old, new)
         ELSE SubSeq(s, 1, 1) \o Replace(SubSeq(s, 2, Len(s)), old, new)

Max(S) == CHOOSE x \in S : \A y \in S : y <= x

-----------------------------------------------------------------------------
(* Calendar: dates are days since 1970-01-01 (proleptic Gregorian) *)

DaysFromCivil(y0, m, d) ==
    LET y == IF m <= 2 THEN y0 - 1 ELSE y0
        era == y \div 400
        yoe == y - era * 400
        mp == IF m > 2 THEN m - 3 ELSE m + 9
        doy == (153 * mp + 2) \div 5 + d - 1
        doe == yoe * 365 + yoe \div 4 - yoe \div 100 + doy
    IN era * 146097 + doe - 719468

CivilFromDays(n) ==
    LET z == n + 719468
        era == z \div 146097
        doe == z - era * 146097
        yoe == (doe - doe \div 1460 + doe \div 36524 - doe \div 146096) \div 365
        doy == doe - (365 * yoe + yoe \div 4 - yoe \div 100)
        mp == (5 * doy + 2) \div 153
        d == doy - (153 * mp + 2) \div 5 + 1
        m == IF mp < 10 THEN mp + 3 ELSE mp - 9
        y == yoe + era * 400 + (IF m <= 2 THEN 1 ELSE 0)
    IN [year |-> y, month |-> m, day |-> d]

MonthAbbr ==
    <<"Jan", "Feb", "Mar", "Apr", "May", "Jun", "Jul", "Aug", "Sep", "Oct", "Nov", "Dec">>

\* x.strftime(params.ALERT_DATE_FORMAT), "%b %d"
strftime(n) ==
    LET c == CivilFromDays(n)
    IN MonthAbbr[c.month] \o " " \o (IF c.day < 10 THEN "0" ELSE "") \o ToString(c.day)

-----------------------------------------------------------------------------
(* params.py, and the constants main.py sets under __main__ *)

TRIAL_CHILD_FU_STATUS_EVENT == "epipenta1_v0_recru_arm_1"
TBV_ALERT == "TBV"
NC_ALERT == "NC"
NV_ALERT == "NEXT VISIT"
DAYS_TO_NC == 28
DAYS_BEFORE_NV == 7
DAYS_AFTER_NV == DAYS_TO_NC
AZIVAC_ALERT == "(AV)"
AZIVAC_ALERT_SERIOUS == "(AV-S)"
DAYS_BEFORE_END_FU == 0
END_FU_ALERT == "END F/U"
END_FU_TRIAL == 18
COMPLETION_STRING == "COMPLETED. 18 months of age"
UNREACHABLE_STRING == "UNREACHABLE. 18 months of age"
NEW_DAYS_AFTER_EPI == 46
NEW_MS_ALERT == "SURVEILLANCE AFTER"
NEW_MS_EXCLUDED_EPI_VISITS == {}
MRV2_ALERT == "MRV2 Pending"
MRV2_ALERT_STRING == MRV2_ALERT
MRV2_MONTHS == 15
DAYS_BEFORE_MRV2 == 0
FINALIZED_COHORT_STRING == "COH."
BW_ALERT == "(BW)"
TRIAL_DEFINED_ALERTS ==
    <<TBV_ALERT, END_FU_ALERT, NEW_MS_ALERT, MRV2_ALERT, COMPLETION_STRING, UNREACHABLE_STRING,
      AZIVAC_ALERT, AZIVAC_ALERT_SERIOUS>>

\* TBV_ALERT + "@{community} AZi/Pbo@{last_azi_date}".format(...)
TBV_ALERT_STRING(community, last_azi_date) ==
    TBV_ALERT \o "@" \o community \o " AZi/Pbo@" \o last_azi_date
\* NC_ALERT + "@{community} ({weeks} weeks)".format(...)
NC_ALERT_STRING(community, weeks) ==
    NC_ALERT \o "@" \o community \o " (" \o weeks \o " weeks)"
\* NV_ALERT + ": {return_date}".format(...)
NV_ALERT_STRING(return_date) == NV_ALERT \o ": " \o return_date
\* END_FU_ALERT + " Pending: {birthday}".format(...)
END_FU_ALERT_STRING(birthday) == END_FU_ALERT \o " Pending: " \o birthday
\* NEW_MS_ALERT + " {last_epi_visit}".format(...)
NEW_MS_ALERT_STRING(last_epi_visit) == NEW_MS_ALERT \o " " \o last_epi_visit

-----------------------------------------------------------------------------
(* The data frame: rows per record id (table order), the child_fu_status   *)
(* cell of the status event, and the date columns already cast to          *)
(* datetime64 in place by pandas.to_datetime                               *)

RowsOf(d, p) == d.rows[p]
RowIdx(d, p) == 1..Len(d.rows[p])

\* the values of column f on the rows of p (NaN cells left out)
Column(d, p, f) == {d.rows[p][i][f] : i \in {j \in RowIdx(d, p) : Has(d.rows[p][j], f)}}

\* groupby('record_id')[f].sum(): NaN counts 0
RECURSIVE SumRows(_, _)
SumRows(rows, f) ==
    IF rows = <<>> THEN 0
    ELSE (IF Has(Head(rows), f) THEN Head(rows)[f] ELSE 0) + SumRows(Tail(rows), f)

\* variant: a cast that turns every value of the column into NaT
to_datetime_coercing(d, cols) ==
    [d EXCEPT !.converted = @ \cup cols,
              !.rows = [p \in Participants |->
                           [i \in 1..Len(d.rows[p]) |->
                               [f \in DOMAIN d.rows[p][i] \ cols |-> d.rows[p][i][f]]]]]
\* x[f] = pandas.to_datetime(x[f]): the column is cast in place
to_datetime(d, cols) == [d EXCEPT !.converted = @ \cup cols]

\* datetime.today() - date, and timedelta(days=n); frac = 1 is a time of day after 00:00
Since(date) == [days |-> today.day - date, frac |-> today.frac]
timedelta(n) == [days |-> n, frac |-> 0]
TdLess(a, b) == a.days < b.days \/ (a.days = b.days /\ a.frac < b.frac)
TdLeq(a, b) == ~TdLess(b, a)

\* get_list_communities(): the choices of the community field (REDCap metadata)
catchment_communities == ("1" :> "Lungi") @@ ("2" :> "Rokupr")

\* .apply(int).apply(str).replace(catchment_communities)
CommunityName(code) ==
    IF ToString(code) \in DOMAIN catchment_communities
    THEN catchment_communities[ToString(code)]
    ELSE ToString(code)

\* redcap_project.import_records(to_import, overwrite=...): a blank value
\* replaces a stored one only with overwrite='overwrite'
import_records(st, call) ==
    [p \in Participants |->
        IF p \in DOMAIN call.data /\ (call.data[p] # "" \/ call.overwrite = "overwrite")
        THEN call.data[p]
        ELSE st[p]]

RECURSIVE ImportAll(_, _)
ImportAll(st, calls) ==
    IF calls = <<>> THEN st ELSE ImportAll(import_records(st, Head(calls)), Tail(calls))

Removal(ids) == [data |-> [p \in ids |-> ""], overwrite |-> "overwrite"]
\* variant: a normal import that appends the value to the stored status
Setup_appending(data) == [data |-> [p \in DOMAIN data |-> status[p] \o data[p]], overwrite |-> "normal"]
Setup(data) == [data |-> data, overwrite |-> "normal"]

\* project.export_records(format='df'): a blank child_fu_status reads NaN
export_records ==
    [rows |-> table,
     status |-> [p \in Participants |-> IF status[p] = "" THEN NaN ELSE Str(status[p])],
     converted |-> {}]

-----------------------------------------------------------------------------
(* main.py *)

\* variant: an index of zero qualifies too
main_get_record_ids_tbv_from_zero(d) ==
    {p \in Participants : SumRows(d.rows[p], "int_azi") - SumRows(d.rows[p], "hh_child_seen") >= 0}
main_get_record_ids_tbv(d) ==
    {p \in Participants : SumRows(d.rows[p], "int_azi") - SumRows(d.rows[p], "hh_child_seen") > 0}

main_get_record_ids_nc(d, days_to_nc) ==
    LET last_return_dates == {p \in Participants : Column(d, p, "int_next_visit") # {}}
        already_visited(p) ==
            /\ Column(d, p, "comp_date") # {}
            /\ Max(Column(d, p, "comp_date")) > Max(Column(d, p, "int_next_visit"))
    IN {p \in last_return_dates :
            /\ ~already_visited(p)
            /\ TdLess(timedelta(days_to_nc), Since(Max(Column(d, p, "int_next_visit"))))}

main_get_record_ids_nv(d, days_before, days_after) ==
    LET last_return_dates == {p \in Participants : Column(d, p, "int_next_visit") # {}}
        days_to_come(p) == Since(Max(Column(d, p, "int_next_visit")))
        before_today == {p \in last_return_dates : TdLeq(timedelta(-days_before), days_to_come(p))}
        after_today == {p \in last_return_dates : TdLess(days_to_come(p), timedelta(days_after))}
    IN before_today \cap after_today

\* the rows of the frame built by build_tbv_alerts_df: id -> child_fu_status
main_build_tbv_alerts_df(d, record_ids) ==
    LET communities_to_be_visited == {p \in record_ids : Column(d, p, "community") # {}}
        dosed(p) == {i \in RowIdx(d, p) : Has(d.rows[p][i], "int_azi") /\ d.rows[p][i]["int_azi"] = 1}
        last_azi_doses == {p \in record_ids : dosed(p) # {}}
        community(p) ==
            IF p \in communities_to_be_visited
            THEN CommunityName(CHOOSE c \in Column(d, p, "community") : TRUE)
            ELSE "nan"
        last_azi_date(p) ==
            IF p \in last_azi_doses
            THEN strftime(Max({d.rows[p][i]["int_date"] : i \in dosed(p)}))
            ELSE "nan"
    IN [p \in communities_to_be_visited \cup last_azi_doses |->
            TBV_ALERT_STRING(community(p), last_azi_date(p))]

main_build_nc_alerts_df(d, record_ids) ==
    LET communities_to_be_visited == {p \in record_ids : Column(d, p, "community") # {}}
        nc_days == {p \in record_ids : Column(d, p, "int_next_visit") # {}}
        community(p) ==
            IF p \in communities_to_be_visited
            THEN CommunityName(CHOOSE c \in Column(d, p, "community") : TRUE)
            ELSE "nan"
    IN [p \in communities_to_be_visited \cup nc_days |->
            NC_ALERT_STRING(community(p),
                ToString(Since(Max(Column(d, p, "int_next_visit"))).days \div 7))]

main_build_nv_alerts_df(d, record_ids) ==
    [p \in record_ids |-> NV_ALERT_STRING(strftime(Max(Column(d, p, "int_next_visit"))))]

main_get_active_alerts(d, alert) ==
    LET active_alerts == {p \in Participants : d.status[p] # NaN}
    IN IF active_alerts = {} THEN None
       ELSE Index({p \in active_alerts : startswith(d.status[p][1], alert)})

\* the import_records calls of a set_* function: the removal (none when
\* get_active_alerts returned None), then the setup
\* variant: the removal import blanks every record that is not to be flagged
DiffAndApply_clearing_all(records_with_alerts, to_flag, to_import) ==
    (IF records_with_alerts.none THEN <<>> ELSE <<Removal(Participants \ to_flag)>>) \o <<Setup(to_import)>>
DiffAndApply(records_with_alerts, to_flag, to_import) ==
    (IF records_with_alerts.none THEN <<>> ELSE <<Removal(records_with_alerts.ids \ to_flag)>>)
        \o <<Setup(to_import)>>

-----------------------------------------------------------------------------
(* alerts.py: custom statuses and active alerts *)

Blanks(n) == {SubSeq("       ", 1, k) : k \in 1..n}

\* what get_record_ids_with_custom_status returns and the import it issues
get_record_ids_with_custom_status(d, defined_alerts) ==
    LET active_alerts == {p \in Participants : d.status[p] # NaN}
        custom_status ==
            {p \in active_alerts :
                \A i \in 1..Len(defined_alerts) : ~startswith(d.status[p][1], defined_alerts[i])}
        empty_status_to_correct == {p \in custom_status : d.status[p][1] \in Blanks(7)}
    IN IF active_alerts = {}
       THEN [result |-> None, calls |-> <<>>]
       ELSE [result |-> Index({p \in custom_status : d.status[p][1] \notin Blanks(6)}),
             calls |-> IF empty_status_to_correct # {}
                       THEN <<Removal(empty_status_to_correct)>>
                       ELSE <<>>]

\* variant: the prefix test of main.py whatever the type
get_active_alerts_prefix_only(d, alert, type_) == main_get_active_alerts(d, alert)
\* variant: the code looked for anywhere in the status
get_active_alerts_anywhere(d, alert, type_) ==
    LET active_alerts == {p \in Participants : d.status[p] # NaN}
    IN IF active_alerts = {} THEN None
       ELSE Index({p \in active_alerts : contains(d.status[p][1], alert)})
get_active_alerts(d, alert, type_) ==
    LET active_alerts == {p \in Participants : d.status[p] # NaN}
    IN IF active_alerts = {} THEN None
       ELSE IF type_ = "BW"
            THEN Index({p \in active_alerts : endswith(d.status[p][1], alert)})
            ELSE Index({p \in active_alerts :
                            \/ startswith(d.status[p][1], alert)
                            \/ startswith(d.status[p][1], "COH." \o alert)})

\* records.difference(blocked_records) under "if blocked_records is not None"
Unblocked(records, blocked) == IF blocked.none THEN records ELSE records \ blocked.ids

-----------------------------------------------------------------------------
(* alerts.py: what a set_* function does, as a record: the import_records  *)
(* calls issued in order, whether it raised, the ids it meant to flag and  *)
(* the columns it cast in place                                            *)

Outcome(calls, raised, to_flag, cast) ==
    [calls |-> calls, raised |-> raised, to_flag |-> to_flag, cast |-> cast]

\* redcap_data.loc[(slice(None), event), :] raises KeyError when no row has the event
EventRows(d, p, event) == {i \in RowIdx(d, p) : d.rows[p][i].redcap_event_name = event}
HasEvent(d, event) == \E p \in Participants : EventRows(d, p, event) # {}

\* groupby('record_id').last() over the rows in idx: the last cell of f that is not NaN
LastCell(d, p, idx, f) ==
    LET with == {i \in idx : Has(d.rows[p][i], f)}
    IN IF with = {} THEN NaN ELSE <<d.rows[p][Max(with)][f]>>

(* TO BE VISITED *)

get_record_ids_tbv(d) ==
    LET hh == "hhafter_1st_dose_o_arm_1"
        epi1_recordid == {p \in Participants : EventRows(d, p, "epipenta1_v0_recru_arm_1") # {}}
        hh1_recordid == {p \in Participants : EventRows(d, p, hh) # {}}
        HH_not_done_yet == epi1_recordid \ hh1_recordid
        cell(p, f) == LastCell(d, p, EventRows(d, p, hh), f)
        phone_unsuccess ==
            {p \in hh1_recordid :
                /\ cell(p, "fu_type") = <<1>>
                /\ (cell(p, "phone_success") = <<0>> \/ cell(p, "call_caretaker") = <<0>>)}
        visit_unsuccess ==
            {p \in hh1_recordid :
                /\ (cell(p, "fu_type") = <<2>> \/ cell(p, "fu_type") = <<3>>)
                /\ cell(p, "hh_child_seen") # <<1>>
                /\ cell(p, "reachable_status") # <<1>>}
        old_visit_unsuccess ==
            {p \in hh1_recordid :
                /\ cell(p, "fu_type") \notin {<<1>>, <<2>>, <<3>>}
                /\ cell(p, "hh_child_seen") = <<0>>
                /\ cell(p, "hh_why_not_child_seen") = <<1>>}
    IN IF ~HasEvent(d, "epipenta1_v0_recru_arm_1") \/ ~HasEvent(d, hh)
       THEN [raised |-> TRUE, ids |-> {}]
       ELSE [raised |-> FALSE,
             ids |-> HH_not_done_yet \cup phone_unsuccess \cup visit_unsuccess \cup old_visit_unsuccess]

\* datetime.strptime(x, redcap_date_format) needs the str the export gave
build_tbv_alerts_df(d, record_ids) ==
    IF "int_date" \in d.converted /\ \E p \in record_ids : 1 \in Column(d, p, "int_azi")
    THEN [raised |-> TRUE, data |-> <<>>]
    ELSE [raised |-> FALSE, data |-> main_build_tbv_alerts_df(d, record_ids)]

\* variant: the removal import is taken back when the setup is not reached
tbv_outcome_rolling_back(d, blocked) ==
    LET tbv == get_record_ids_tbv(d)
        records_to_be_visited == Unblocked(tbv.ids, blocked)
        records_with_alerts == get_active_alerts(d, TBV_ALERT, "Normal")
        removal == IF records_with_alerts.none THEN <<>>
                   ELSE <<Removal(records_with_alerts.ids \ records_to_be_visited)>>
        to_import_df == build_tbv_alerts_df(d, records_to_be_visited)
    IN IF tbv.raised THEN Outcome(<<>>, TRUE, {}, {})
       ELSE IF to_import_df.raised THEN Outcome(<<>>, TRUE, records_to_be_visited, {})
       ELSE Outcome(removal \o <<Setup(to_import_df.data)>>, FALSE, records_to_be_visited, {})
tbv_outcome(d, blocked) ==
    LET tbv == get_record_ids_tbv(d)
        records_to_be_visited == Unblocked(tbv.ids, blocked)
        records_with_alerts == get_active_alerts(d, TBV_ALERT, "Normal")
        removal == IF records_with_alerts.none THEN <<>>
                   ELSE <<Removal(records_with_alerts.ids \ records_to_be_visited)>>
        to_import_df == build_tbv_alerts_df(d, records_to_be_visited)
    IN IF tbv.raised THEN Outcome(<<>>, TRUE, {}, {})
       ELSE IF to_import_df.raised THEN Outcome(removal, TRUE, records_to_be_visited, {})
       ELSE Outcome(removal \o <<Setup(to_import_df.data)>>, FALSE, records_to_be_visited, {})

(* NEXT VISIT *)

\* variant: the window closed at both ends
get_record_ids_nv_closed(d, days_before, days_after) ==
    {p \in Participants :
        /\ Column(d, p, "int_next_visit") # {}
        /\ TdLeq(timedelta(-days_before), Since(Max(Column(d, p, "int_next_visit"))))
        /\ TdLeq(Since(Max(Column(d, p, "int_next_visit"))), timedelta(days_after))}
get_record_ids_nv(d, days_before, days_after) == main_get_record_ids_nv(d, days_before, days_after)

\* variant: the alert string appended to the status the participant has
build_nv_alerts_df_appending(d, record_ids) ==
    [p \in record_ids |->
        (IF d.status[p] = NaN THEN "" ELSE d.status[p][1]) \o main_build_nv_alerts_df(d, record_ids)[p]]
build_nv_alerts_df(d, record_ids) == main_build_nv_alerts_df(d, record_ids)

\* variant: the to-be-visited ids are not taken out of the ids to flag
nv_outcome_without_priority(d, blocked, days_before, days_after) ==
    LET records_to_flag == Unblocked(get_record_ids_nv(d, days_before, days_after), blocked)
        records_with_alerts == get_active_alerts(d, NV_ALERT, "Normal")
    IN Outcome(DiffAndApply(records_with_alerts, records_to_flag,
                            build_nv_alerts_df(d, records_to_flag)),
               FALSE, records_to_flag, {"int_next_visit"})
nv_outcome(d, blocked, days_before, days_after) ==
    LET tbv == get_record_ids_tbv(d)
        records_to_flag == Unblocked(get_record_ids_nv(d, days_before, days_after), blocked) \ tbv.ids
        records_with_alerts == get_active_alerts(d, NV_ALERT, "Normal")
    IN IF tbv.raised THEN Outcome(<<>>, TRUE, {}, {"int_next_visit"})
       ELSE Outcome(DiffAndApply(records_with_alerts, records_to_flag,
                                 build_nv_alerts_df(d, records_to_flag)),
                    FALSE, records_to_flag, {"int_next_visit"})

(* NON-COMPLIANT *)

\* variant: the participants who completed the EPI schedule stay in
get_record_ids_nc_with_completed(d, days_to_nc) == main_get_record_ids_nc(d, days_to_nc)
get_record_ids_nc(d, days_to_nc) ==
    LET completed_epi ==
            {p \in Participants :
                \E i \in EventRows(d, p, "epimvr2_v6_iptisp6_arm_1") :
                    Has(d.rows[p][i], "intervention_complete") /\ d.rows[p][i].intervention_complete = 2}
    IN main_get_record_ids_nc(d, days_to_nc) \ completed_epi

build_nc_alerts_df(d, record_ids) == main_build_nc_alerts_df(d, record_ids)

nc_outcome(d, blocked, days_to_nc) ==
    LET records_to_be_visited == Unblocked(get_record_ids_nc(d, days_to_nc), blocked)
        records_with_alerts == get_active_alerts(d, NC_ALERT, "Normal")
    IN Outcome(DiffAndApply(records_with_alerts, records_to_be_visited,
                            build_nc_alerts_df(d, records_to_be_visited)),
               FALSE, records_to_be_visited, {"int_next_visit", "comp_date"})

(* MORTALITY SURVEILLANCE *)

NEW_MS_DATE_COLUMNS ==
    {"int_date", "a1m_date", "hh_date", "ms_date_contact", "unsch_date", "mig_date",
     "sae_hosp_admin_date", "rtss_date", "comp_date", "ch_his_date", "rtss_vacc_rtss1_date",
     "rtss_vacc_rtss2_date", "rtss_vacc_rtss3_date", "rtss_vacc_rtss4_date"}

TRIAL_ALL_EVENT_NAMES ==
    ("epipenta1_v0_recru_arm_1" :> "PENTA1") @@ ("epimvr1_v4_iptisp4_arm_1" :> "MRV1") @@
    ("epivita_v5_iptisp5_arm_1" :> "VITA-12M") @@ ("epimvr2_v6_iptisp6_arm_1" :> "MRV2") @@
    ("hhafter_1st_dose_o_arm_1" :> "HHA1D") @@ ("cohort_after_mrv_2_arm_1" :> "COHAMRV2")

\* Series.replace(event_names): a code the dictionary lacks stays as it is
EventName(event_names, code) == IF code \in DOMAIN event_names THEN event_names[code] ELSE code

\* the dates of the 14 columns in the rows of p whose event is not excluded
VisitDates(d, p, excluded_epi_visits) ==
    UNION {{d.rows[p][i][f] : f \in NEW_MS_DATE_COLUMNS \cap DOMAIN d.rows[p][i]} :
              i \in {j \in RowIdx(d, p) : d.rows[p][j].redcap_event_name \notin excluded_epi_visits}}

\* variant: a last contact exactly days_after_epi days ago qualifies
get_record_ids_new_ms_from_threshold(d, days_after_epi, excluded_epi_visits) ==
    LET dated == {p \in Participants : VisitDates(d, p, excluded_epi_visits) # {}}
        last_visit(p) == Max(VisitDates(d, p, excluded_epi_visits))
        completed_fu ==
            {p \in Participants :
                \E i \in EventRows(d, p, "hhat_18th_month_of_arm_1") :
                    /\ d.rows[p][i].redcap_event_name \notin excluded_epi_visits
                    /\ Has(d.rows[p][i], "household_follow_up_complete")
                    /\ d.rows[p][i].household_follow_up_complete = 2}
        to_be_surveyed == {p \in dated : today.day - last_visit(p) >= days_after_epi} \ completed_fu
    IN [p \in to_be_surveyed |-> last_visit(p)]
\* to_be_surveyed and last_visit_dates, as a function from the former to the latter
get_record_ids_new_ms(d, days_after_epi, excluded_epi_visits) ==
    LET dated == {p \in Participants : VisitDates(d, p, excluded_epi_visits) # {}}
        last_visit(p) == Max(VisitDates(d, p, excluded_epi_visits))
        completed_fu ==
            {p \in Participants :
                \E i \in EventRows(d, p, "hhat_18th_month_of_arm_1") :
                    /\ d.rows[p][i].redcap_event_name \notin excluded_epi_visits
                    /\ Has(d.rows[p][i], "household_follow_up_complete")
                    /\ d.rows[p][i].household_follow_up_complete = 2}
        to_be_surveyed == {p \in dated : today.day - last_visit(p) > days_after_epi} \ completed_fu
    IN [p \in to_be_surveyed |-> last_visit(p)]

build_new_ms_alerts_df(d, record_ids, event_names, last_visit_dates) ==
    LET first_row(p) ==
            CHOOSE i \in RowIdx(d, p) :
                /\ \E f \in NEW_MS_DATE_COLUMNS \cap DOMAIN d.rows[p][i] : d.rows[p][i][f] = last_visit_dates[p]
                /\ \A j \in 1..(i - 1) :
                      \A f \in NEW_MS_DATE_COLUMNS \cap DOMAIN d.rows[p][j] : d.rows[p][j][f] # last_visit_dates[p]
    IN [p \in DOMAIN last_visit_dates \cap record_ids |->
            NEW_MS_ALERT_STRING(EventName(event_names, d.rows[p][first_row(p)].redcap_event_name))]

new_ms_outcome(d, blocked, days_after_epi, event_names, excluded_epi_visits) ==
    LET last_visit_dates == get_record_ids_new_ms(d, days_after_epi, excluded_epi_visits)
        records_to_be_contacted == Unblocked(DOMAIN last_visit_dates, blocked)
        records_with_alerts == get_active_alerts(d, NEW_MS_ALERT, "Normal")
    IN Outcome(DiffAndApply(records_with_alerts, records_to_be_contacted,
                            build_new_ms_alerts_df(d, records_to_be_contacted, event_names, last_visit_dates)),
               FALSE, records_to_be_contacted, NEW_MS_DATE_COLUMNS)

(* MRV2 VISIT AND END OF FOLLOW UP *)

\* dob + relativedelta(months=+n): the day is clipped to the length of the month
AddMonths(n, months) ==
    LET c == CivilFromDays(n)
        m0 == c.month - 1 + months
        y == c.year + (m0 \div 12)
        m == (m0 % 12) + 1
        len == DaysFromCivil(IF m = 12 THEN y + 1 ELSE y, IF m = 12 THEN 1 ELSE m + 1, 1)
               - DaysFromCivil(y, m, 1)
    IN DaysFromCivil(y, m, IF c.day > len THEN len ELSE c.day)

calculate_age_months(dob) ==
    LET t == CivilFromDays(today.day)
        b == CivilFromDays(dob)
    IN (t.year - b.year) * 12 + (t.month - b.month)

\* variant: whole calendar days, whatever the time of day
days_to_birthday_calendar(dob, fu) == AddMonths(dob, fu) - today.day
\* timedelta.days is the floor: the time of day of today takes one day off
days_to_birthday(dob, fu) == AddMonths(dob, fu) - today.day - today.frac

Dobs(d) == {p \in Participants : Column(d, p, "child_dob") # {}}
Dob(d, p) == Max(Column(d, p, "child_dob"))

\* dobs.apply(calculate_age_months) of an empty series is an empty series of dates,
\* and comparing dates with a number raises TypeError: no record has a child_dob
no_dobs(d) == Dobs(d) = {}

\* variant: the alert lapses 30 days after the day the participant turns the age
AboutToTurn_lapsing(d, days_before, age, about_to_turn) ==
    {p \in Dobs(d) :
        /\ calculate_age_months(Dob(d, p)) >= about_to_turn
        /\ days_to_birthday(Dob(d, p), age) < days_before
        /\ days_to_birthday(Dob(d, p), age) >= -30}
AboutToTurn(d, days_before, age, about_to_turn) ==
    {p \in Dobs(d) :
        /\ calculate_age_months(Dob(d, p)) >= about_to_turn
        /\ days_to_birthday(Dob(d, p), age) < days_before}

\* intervention_complete is a number, so "intervention_complete != ''" holds in every row
get_record_ids_end_15m(d, days_before, mrv2_age, about_to_turn) ==
    LET record_ids_seen == {p \in Participants : EventRows(d, p, "epimvr2_v6_iptisp6_arm_1") # {}}
    IN AboutToTurn(d, days_before, mrv2_age, about_to_turn) \ record_ids_seen

EndOfFollowUpRows(d, p) ==
    {i \in EventRows(d, p, "hhat_18th_month_of_arm_1") :
        Has(d.rows[p][i], "redcap_repeat_instrument")
        /\ d.rows[p][i].redcap_repeat_instrument = "household_follow_up"}

Is(r, f, values) == Has(r, f) /\ r[f] \in values

get_record_ids_end_trial_fu(d, days_before, fu_age, about_to_turn) ==
    LET record_ids_seen ==
            {p \in Participants :
                \E i \in EndOfFollowUpRows(d, p) :
                    \/ Is(d.rows[p][i], "hh_child_seen", {1})
                    \/ Is(d.rows[p][i], "phone_child_status", {1, 4})
                    \/ Is(d.rows[p][i], "hh_why_not_child_seen", {1, 4, 5})}
        records_unreachable ==
            {p \in Participants :
                \E i \in EndOfFollowUpRows(d, p) : Is(d.rows[p][i], "reachable_status", {2})}
    IN [about_18m_not_seen |->
            (AboutToTurn(d, days_before, fu_age, about_to_turn) \ record_ids_seen) \ records_unreachable,
        record_ids_seen |-> record_ids_seen,
        records_unreachable |-> records_unreachable]

\* alert_string is the template applied to strftime(birthday)
build_end_fu_alerts_df(d, record_ids, alert_string, months) ==
    [p \in record_ids \cap Dobs(d) |->
        IF alert_string = "END_FU_ALERT_STRING"
        THEN END_FU_ALERT_STRING(strftime(AddMonths(Dob(d, p), months)))
        ELSE MRV2_ALERT_STRING]

mrv2_outcome(d, blocked, days_before, months) ==
    LET records_to_flag == Unblocked(get_record_ids_end_15m(d, days_before, 15, 14), blocked)
        records_with_alerts == get_active_alerts(d, MRV2_ALERT, "Normal")
    IN IF no_dobs(d) THEN Outcome(<<>>, TRUE, {}, {"child_dob"})
       ELSE Outcome(DiffAndApply(records_with_alerts, records_to_flag,
                                 build_end_fu_alerts_df(d, records_to_flag, "MRV2_ALERT_STRING", months)),
                    FALSE, records_to_flag, {"child_dob"})

\* variant: the completed string imported before the unreachable string
end_fu_outcome_unreachable_last(d, blocked, days_before, months, completed_alert_string, unreachable_alert_string) ==
    LET ids == get_record_ids_end_trial_fu(d, days_before, 18, 17)
        records_to_flag == Unblocked(ids.about_18m_not_seen, blocked)
        records_with_alerts == get_active_alerts(d, END_FU_ALERT, "Normal")
        unreachable ==
            IF unreachable_alert_string = NaN THEN <<>>
            ELSE <<Setup([p \in ids.records_unreachable |-> unreachable_alert_string[1]])>>
        completed ==
            IF completed_alert_string = NaN THEN <<>>
            ELSE <<Setup([p \in ids.record_ids_seen |-> completed_alert_string[1]])>>
    IN IF no_dobs(d) THEN Outcome(<<>>, TRUE, {}, {"child_dob"})
       ELSE Outcome(DiffAndApply(records_with_alerts, records_to_flag,
                                 build_end_fu_alerts_df(d, records_to_flag, "END_FU_ALERT_STRING", months))
                        \o completed \o unreachable,
                    FALSE, records_to_flag, {"child_dob"})
\* study == "TRIAL"; a string that is None skips its import
end_fu_outcome(d, blocked, days_before, months, completed_alert_string, unreachable_alert_string) ==
    LET ids == get_record_ids_end_trial_fu(d, days_before, 18, 17)
        records_to_flag == Unblocked(ids.about_18m_not_seen, blocked)
        records_with_alerts == get_active_alerts(d, END_FU_ALERT, "Normal")
        unreachable ==
            IF unreachable_alert_string = NaN THEN <<>>
            ELSE <<Setup([p \in ids.records_unreachable |-> unreachable_alert_string[1]])>>
        completed ==
            IF completed_alert_string = NaN THEN <<>>
            ELSE <<Setup([p \in ids.record_ids_seen |-> completed_alert_string[1]])>>
    IN IF no_dobs(d) THEN Outcome(<<>>, TRUE, {}, {"child_dob"})
       ELSE Outcome(DiffAndApply(records_with_alerts, records_to_flag,
                                 build_end_fu_alerts_df(d, records_to_flag, "END_FU_ALERT_STRING", months))
                        \o unreachable \o completed,
                    FALSE, records_to_flag, {"child_dob"})

(* BIRTH WEIGHT *)

\* the child_fu_status cell of the status-event row of p
FuStatus(d, p) == d.status[p]

bw_outcome(d, blocked) ==
    LET REDCAP_QUERY == {p \in Participants : EventRows(d, p, "epipenta1_v0_recru_arm_1") # {}}
        BW_REDCAP ==
            {p \in REDCAP_QUERY :
                \E i \in EventRows(d, p, "epipenta1_v0_recru_arm_1") :
                    ~Has(d.rows[p][i], "child_birth_weight_known")}
        records_bw == Unblocked(BW_REDCAP, blocked)
        records_with_alerts == get_active_alerts(d, BW_ALERT, "BW")
        removal ==
            IF records_with_alerts.none THEN <<>>
            ELSE <<[data |-> [p \in records_with_alerts.ids \ records_bw |->
                                  SplitFirst(PyStr(FuStatus(d, p)), "(BW)")],
                    overwrite |-> "overwrite"]>>
        new_status(p) ==
            IF PyStr(FuStatus(d, p)) = "nan" THEN "(BW)"
            ELSE IF contains(PyStr(FuStatus(d, p)), "COMPLETED")
                 THEN SplitFirst(PyStr(FuStatus(d, p)), "(BW)")
                 ELSE SplitFirst(PyStr(FuStatus(d, p)), "(BW)") \o "(BW)"
    IN Outcome(removal \o <<Setup([p \in records_bw |-> new_status(p)])>>, FALSE, records_bw, {})

(* AZIVAC *)

azivac_blocked_records ==
    {16040213, 16040155, 16040321, 16040350, 16040360, 16040373, 16040404, 17010866, 13010750,
     13010774, 13010854, 12020184, 11020042, 8040319, 8040295, 8040236, 8040172}

\* variant: months of thirty days between the two dates
diff_month_by_days(d1, d2) == (d1 - d2) \div 30
diff_month(d1, d2) ==
    LET a == CivilFromDays(d1)
        b == CivilFromDays(d2)
    IN (a.year - b.year) * 12 + a.month - b.month

AzivacRows(d, p, event) ==
    {i \in EventRows(d, p, event) :
        Has(d.rows[p][i], "azivac_study_number") /\ Has(d.rows[p][i], "azivac_date")}

build_azivac(d, av_alert, blocked, AV_REDCAP_AL1, AVRES5) ==
    LET records_av_al1 == Unblocked(AV_REDCAP_AL1 \ AVRES5, blocked) \ azivac_blocked_records
        records_with_alerts_al1 == get_active_alerts(d, av_alert, "BW")
        removal ==
            IF records_with_alerts_al1.none THEN <<>>
            ELSE <<[data |-> [p \in records_with_alerts_al1.ids \ records_av_al1 |->
                                  SplitFirst(PyStr(FuStatus(d, p)), "(")],
                    overwrite |-> "overwrite"]>>
        new_status(p) ==
            IF PyStr(FuStatus(d, p)) = "nan" THEN av_alert
            ELSE IF contains(PyStr(FuStatus(d, p)), "COMPLETED")
                 THEN SplitFirst(PyStr(FuStatus(d, p)), "(")
                 ELSE SplitFirst(PyStr(FuStatus(d, p)), "(") \o av_alert
    IN [calls |-> removal \o <<Setup([p \in records_av_al1 |-> new_status(p)])>>,
        records |-> records_av_al1]

azivac_outcome(d, av_alert, blocked) ==
    LET V4 == "epimvr1_v4_iptisp4_arm_1"
        V5 == "epivita_v5_iptisp5_arm_1"
        AV_REDCAP_V4 == {p \in Participants : AzivacRows(d, p, V4) # {}}
        AVRES5 == {p \in Participants : AzivacRows(d, p, V5) # {}}
        dm(p, i) == diff_month(today.day, d.rows[p][i].azivac_date)
        AV_REDCAP_AL1 == {p \in AV_REDCAP_V4 : \E i \in AzivacRows(d, p, V4) : 2 > dm(p, i) /\ dm(p, i) >= 1}
        AV_REDCAP_AL2 == {p \in AV_REDCAP_V4 : \E i \in AzivacRows(d, p, V4) : 4 > dm(p, i) /\ dm(p, i) >= 2}
        alarm1 == build_azivac(d, av_alert, blocked, AV_REDCAP_AL1, AVRES5)
        alarm2 == build_azivac(d, AZIVAC_ALERT_SERIOUS, blocked, AV_REDCAP_AL2, AVRES5)
    IN IF ~HasEvent(d, V4) \/ AV_REDCAP_V4 = {}
       THEN Outcome(<<>>, FALSE, {}, {})
       ELSE Outcome(alarm1.calls \o alarm2.calls, FALSE, alarm1.records \cup alarm2.records, {})

(* NON-CONTEMPORARY COHORT STUDY *)

CohortRows(d, p) == EventRows(d, p, "cohort_after_mrv_2_arm_1")

\* rows is the exported table and st the child_fu_status cells that go with it
remove_labels_cohorts(rows, st) ==
    LET d == [rows |-> rows]
        actual_cohorts == {p \in Participants : CohortRows(d, p) # {}}
        actual_labeled_cohort == {p \in Participants : st[p] # NaN /\ contains(st[p][1], "COH.")}
        list_labels_to_remove == actual_labeled_cohort \ actual_cohorts
    IN IF \A p \in Participants : st[p] = NaN THEN <<>>
       ELSE [p \in list_labels_to_remove |-> Replace(st[p][1], "COH.", "")]

set_label_cohorts(rows, st) ==
    LET d == [rows |-> rows]
        actual_cohorts ==
            {p \in Participants : \E i \in CohortRows(d, p) : Has(rows[p][i], "ch_his_date")}
        label(p) ==
            IF PyStr(st[p]) = "nan" THEN FINALIZED_COHORT_STRING
            ELSE IF contains(st[p][1], FINALIZED_COHORT_STRING)
                 THEN Replace(st[p][1], "(COHORT pending)", "")
                 ELSE FINALIZED_COHORT_STRING \o Replace(st[p][1], "(COHORT pending)", "")
    IN IF \A p \in Participants : st[p] = NaN THEN <<>>
       ELSE [p \in actual_cohorts |-> label(p)]

\* what the project exports after the calls have been imported
Exported(st, calls) ==
    [p \in Participants |-> IF ImportAll(st, calls)[p] = "" THEN NaN ELSE Str(ImportAll(st, calls)[p])]

\* listed: the health facility of the project is in this month's recruitment sheet
nc_cohort_outcome(d, st, listed) ==
    LET removed == <<Setup(remove_labels_cohorts(d.rows, d.status))>>
    IN IF ~listed THEN Outcome(<<>>, FALSE, {}, {})
       ELSE Outcome(removed \o <<Setup(set_label_cohorts(table, Exported(st, removed)))>>,
                    FALSE, {}, {})

-----------------------------------------------------------------------------
(* Project data the scripts can find: per record id the row of the status  *)
(* event (the first EPI visit) and the rows of later events                *)

Today0 == DaysFromCivil(2024, 7, 10)

EpiRow(fields) == [redcap_event_name |-> TRIAL_CHILD_FU_STATUS_EVENT] @@ fields
EventRow(event, fields) == [redcap_event_name |-> event] @@ fields
NoFields == <<>>

Community == {NoFields, [community |-> 1]}
\* AZi/Pbo given at the visit or not, with the visit date
Dose == {[int_azi |-> 0, int_date |-> Today0 - 60], [int_azi |-> 1, int_date |-> Today0 - 60]}
\* household visit after the dose: none, child seen, child not seen
HouseholdVisit ==
    {<<>>,
     <<EventRow("hhafter_1st_dose_o_arm_1", [hh_child_seen |-> 1, hh_date |-> Today0 - 50])>>,
     <<EventRow("hhafter_1st_dose_o_arm_1",
                [hh_child_seen |-> 0, hh_why_not_child_seen |-> 1, hh_date |-> Today0 - 50])>>}
\* return date given at the visit: none, long overdue, a few days ago
NextVisit == {NoFields, [int_next_visit |-> Today0 - 40], [int_next_visit |-> Today0 - 3]}

MainHistories ==
    {<<EpiRow(c @@ a @@ n)>> \o h : c \in Community, a \in Dose, n \in NextVisit, h \in HouseholdVisit}

MainStatuses == {"", "NEXT VISIT: Jun 30", "TBV@Lungi AZi/Pbo@May 11"}

EmptyFrame ==
    [rows |-> [p \in Participants |-> <<>>], status |-> [p \in Participants |-> NaN], converted |-> {}]

\* the function run last: its name, the arguments the caller chose, its import_records
\* calls, the ids it meant to flag, what it returned, and the function run before it
NoOp == [op |-> "none", args |-> <<>>, calls |-> <<>>, to_flag |-> {}, out |-> <<>>, before |-> <<>>]
Done(op, args, calls, to_flag) ==
    [op |-> op, args |-> args, calls |-> calls, to_flag |-> to_flag, out |-> <<>>,
     before |-> <<last.op, last.args>>]
Returned(op, args, calls, out) ==
    [op |-> op, args |-> args, calls |-> calls, to_flag |-> {}, out |-> out,
     before |-> <<last.op, last.args>>]

-----------------------------------------------------------------------------
(* main.py, __main__: one project of the loop *)

InitMain ==
    /\ prog = "main"
    /\ table \in [Participants -> MainHistories]
    /\ status \in [Participants -> MainStatuses]
    /\ df = EmptyFrame
    /\ today \in {[day |-> Today0, frac |-> 1]}
    /\ blocked_records = None
    /\ last = NoOp
    /\ pc = "start"
    /\ nops = 0

\* df = project.export_records(format='df')
MainExport ==
    /\ prog = "main" /\ pc = "start"
    /\ df' = export_records
    /\ last' = Done("export_records", <<>>, <<>>, {})
    /\ pc' = "set_tbv_alerts"
    /\ UNCHANGED <<prog, table, status, today, blocked_records, nops>>

main_set_tbv_alerts ==
    /\ prog = "main" /\ pc = "set_tbv_alerts"
    /\ LET records_to_be_visited == main_get_record_ids_tbv(df)
           records_with_alerts == main_get_active_alerts(df, TBV_ALERT)
           calls == DiffAndApply(records_with_alerts, records_to_be_visited,
                                 main_build_tbv_alerts_df(df, records_to_be_visited))
       IN /\ status' = ImportAll(status, calls)
          /\ last' = Done("set_tbv_alerts", <<>>, calls, records_to_be_visited)
    /\ pc' = "set_nc_alerts"
    /\ nops' = nops + 1
    /\ UNCHANGED <<prog, table, df, today, blocked_records>>

main_set_nc_alerts ==
    /\ prog = "main" /\ pc = "set_nc_alerts"
    /\ LET records_to_be_visited == main_get_record_ids_nc(df, DAYS_TO_NC)
           records_with_alerts == main_get_active_alerts(df, NC_ALERT)
           calls == DiffAndApply(records_with_alerts, records_to_be_visited,
                                 main_build_nc_alerts_df(df, records_to_be_visited))
       IN /\ status' = ImportAll(status, calls)
          /\ last' = Done("set_nc_alerts", <<>>, calls, records_to_be_visited)
    /\ df' = to_datetime(df, {"int_next_visit", "comp_date"})
    /\ pc' = "set_nv_alerts"
    /\ nops' = nops + 1
    /\ UNCHANGED <<prog, table, today, blocked_records>>

main_set_nv_alerts ==
    /\ prog = "main" /\ pc = "set_nv_alerts"
    /\ LET records_to_flag ==
               main_get_record_ids_nv(df, DAYS_BEFORE_NV, DAYS_AFTER_NV) \ main_get_record_ids_tbv(df)
           records_with_alerts == main_get_active_alerts(df, NV_ALERT)
           calls == DiffAndApply(records_with_alerts, records_to_flag,
                                 main_build_nv_alerts_df(df, records_to_flag))
       IN /\ status' = ImportAll(status, calls)
          /\ last' = Done("set_nv_alerts", <<>>, calls, records_to_flag)
    /\ df' = to_datetime(df, {"int_next_visit"})
    /\ pc' = "done"
    /\ nops' = nops + 1
    /\ UNCHANGED <<prog, table, today, blocked_records>>

NextMain == MainExport \/ main_set_tbv_alerts \/ main_set_nc_alerts \/ main_set_nv_alerts

SpecMain == InitMain /\ [][NextMain]_vars

\* C1: at the end of a main.py pass a participant who is in the to-be-flagged sets of
\* set_tbv_alerts and of set_nc_alerts, which runs later, carries the status built from
\* the NC template, whatever set_nv_alerts does after them (last write wins).
C1_LastWriteWins ==
    pc = "done" =>
        \A p \in main_get_record_ids_tbv(df) \cap main_get_record_ids_nc(df, DAYS_TO_NC) :
            status[p] = main_build_nc_alerts_df(df, {p})[p]

-----------------------------------------------------------------------------
(* A trial project for alerts.py: one history per record id *)

Born(y, m, day) == [child_dob |-> DaysFromCivil(y, m, day)]
HouseholdRow(fields) == EventRow("hhafter_1st_dose_o_arm_1", fields)
EndOfFollowUpRow(fields) ==
    EventRow("hhat_18th_month_of_arm_1", [redcap_repeat_instrument |-> "household_follow_up"] @@ fields)

\* recruited without dose or community, never visited at home, birth weight unknown
NotVisited == <<EpiRow([int_azi |-> 0, int_date |-> Today0 - 60])>>
\* dosed, seen at home, return date three days ago, 15 months old
Returning ==
    <<EpiRow([community |-> 1, int_azi |-> 1, int_date |-> Today0 - 60, int_next_visit |-> Today0 - 3,
              child_birth_weight_known |-> 1] @@ Born(2023, 4, 5)),
      HouseholdRow([hh_child_seen |-> 1, hh_date |-> Today0 - 50])>>
\* dosed, not found at home, return date three days ago
NotFound ==
    <<EpiRow([community |-> 1, int_azi |-> 1, int_date |-> Today0 - 60, int_next_visit |-> Today0 - 3,
              child_birth_weight_known |-> 1]),
      HouseholdRow([hh_child_seen |-> 0, hh_why_not_child_seen |-> 1, hh_date |-> Today0 - 20])>>
\* return date long overdue, 18 months old, no end of follow up visit
Overdue ==
    <<EpiRow([community |-> 2, int_azi |-> 1, int_date |-> Today0 - 60, int_next_visit |-> Today0 - 40,
              child_birth_weight_known |-> 1] @@ Born(2023, 1, 7)),
      HouseholdRow([hh_child_seen |-> 1, hh_date |-> Today0 - 50])>>
\* 18 months old, end of follow up visit done: child seen after having been unreachable
Finished ==
    <<EpiRow([community |-> 1, int_azi |-> 1, int_date |-> Today0 - 60, child_birth_weight_known |-> 1]
             @@ Born(2023, 1, 7)),
      HouseholdRow([hh_child_seen |-> 1, hh_date |-> Today0 - 50]),
      EndOfFollowUpRow([reachable_status |-> 2, hh_date |-> Today0 - 9]),
      EndOfFollowUpRow([hh_child_seen |-> 1, household_follow_up_complete |-> 2, hh_date |-> Today0 - 2])>>
\* AziVac sample taken last month, cohort participant
Sampled ==
    <<EpiRow([community |-> 1, int_azi |-> 1, int_date |-> Today0 - 60, child_birth_weight_known |-> 1]),
      HouseholdRow([hh_child_seen |-> 1, hh_date |-> Today0 - 50]),
      EventRow("epimvr1_v4_iptisp4_arm_1",
               [azivac_study_number |-> "AV-7", azivac_date |-> DaysFromCivil(2024, 6, 20),
                int_date |-> DaysFromCivil(2024, 6, 20)]),
      EventRow("cohort_after_mrv_2_arm_1", [ch_his_date |-> Today0 - 10])>>
\* AziVac sample taken two months ago, MRV2 visit completed, return date long overdue
SampledLongAgo ==
    <<EpiRow([community |-> 1, int_azi |-> 1, int_date |-> Today0 - 90, child_birth_weight_known |-> 1]),
      HouseholdRow([hh_child_seen |-> 1, hh_date |-> Today0 - 80]),
      EventRow("epimvr1_v4_iptisp4_arm_1",
               [azivac_study_number |-> "AV-9", azivac_date |-> DaysFromCivil(2024, 5, 20),
                int_date |-> DaysFromCivil(2024, 5, 20), int_next_visit |-> Today0 - 40]),
      EventRow("epimvr2_v6_iptisp6_arm_1", [intervention_complete |-> 2, int_date |-> Today0 - 48])>>

Histories == {NotVisited, Returning, NotFound, Overdue, Finished, Sampled, SampledLongAgo}

\* child_fu_status values a previous run or a field worker left
Statuses ==
    {"", "seen by nurse", "  ", "TBV@Lungi AZi/Pbo@May 11", "NEXT VISIT: Jun 30",
     "END F/U Pending: Jul 07(BW)", "COH.MRV2 Pending", "SURVEILLANCE AFTER PENTA1(AV)"}

-----------------------------------------------------------------------------
(* alerts.py driven the way main.py drives its own functions: export, then *)
(* the custom statuses, then set_* functions on that data frame            *)

Init ==
    /\ prog = "alerts"
    /\ table \in [Participants -> Histories]
    /\ status \in [Participants -> Statuses]
    /\ df = EmptyFrame
    /\ today = [day |-> Today0, frac |-> 1]
    /\ blocked_records = None
    /\ last = NoOp
    /\ pc = "start"
    /\ nops = 0

SetOps ==
    {"set_tbv_alerts", "set_nv_alerts", "set_nc_alerts", "set_new_ms_alerts", "set_mrv2_alerts",
     "set_end_fu_alerts", "set_bw_alerts", "set_azivac_alerts", "set_nc_cohort_alerts"}

\* redcap_project.export_records(format='df')
Export ==
    /\ prog # "main"
    /\ pc = "start" \/ (pc = "ready" /\ nops > 0 /\ nops < MaxOps /\ last.op \in SetOps)
    /\ df' = export_records
    /\ last' = Done("export_records", <<>>, <<>>, {})
    /\ pc' = IF prog = "alerts" THEN "exported" ELSE "ready"
    /\ UNCHANGED <<prog, table, status, today, blocked_records, nops>>

GetCustomStatus ==
    /\ prog = "alerts" /\ pc = "exported"
    /\ LET custom == get_record_ids_with_custom_status(df, TRIAL_DEFINED_ALERTS)
       IN /\ blocked_records' = custom.result
          /\ status' = ImportAll(status, custom.calls)
          /\ last' = Returned("get_record_ids_with_custom_status", <<>>, custom.calls, <<custom.result>>)
    /\ pc' = "ready"
    /\ UNCHANGED <<prog, table, df, today, nops>>

\* one set_* function: its imports reach the project, its casts the data frame
RunSetOp(name, args, out) ==
    /\ pc = "ready" /\ nops < MaxOps
    /\ status' = ImportAll(status, out.calls)
    /\ df' = to_datetime(df, out.cast)
    /\ last' = Done(name, args, out.calls, out.to_flag)
    /\ pc' = IF out.raised THEN "raised" ELSE "ready"
    /\ nops' = nops + 1
    /\ UNCHANGED <<prog, table, today, blocked_records>>

set_tbv_alerts ==
    /\ prog = "alerts"
    /\ RunSetOp("set_tbv_alerts", <<>>, tbv_outcome(df, blocked_records))

set_nv_alerts ==
    /\ prog = "alerts"
    /\ RunSetOp("set_nv_alerts", <<>>, nv_outcome(df, blocked_records, DAYS_BEFORE_NV, DAYS_AFTER_NV))

set_nc_alerts ==
    /\ prog = "alerts"
    /\ RunSetOp("set_nc_alerts", <<>>, nc_outcome(df, blocked_records, DAYS_TO_NC))

set_new_ms_alerts ==
    /\ prog = "alerts"
    /\ RunSetOp("set_new_ms_alerts", <<>>,
                new_ms_outcome(df, blocked_records, NEW_DAYS_AFTER_EPI, TRIAL_ALL_EVENT_NAMES,
                               NEW_MS_EXCLUDED_EPI_VISITS))

set_mrv2_alerts ==
    /\ prog = "alerts"
    /\ RunSetOp("set_mrv2_alerts", <<>>, mrv2_outcome(df, blocked_records, DAYS_BEFORE_MRV2, MRV2_MONTHS))

set_end_fu_alerts ==
    /\ prog = "alerts"
    /\ \E strings \in {<<NaN, NaN>>, <<Str(COMPLETION_STRING), Str(UNREACHABLE_STRING)>>} :
          RunSetOp("set_end_fu_alerts", strings,
                   end_fu_outcome(df, blocked_records, DAYS_BEFORE_END_FU, END_FU_TRIAL,
                                  strings[1], strings[2]))

set_bw_alerts ==
    /\ prog = "alerts"
    /\ RunSetOp("set_bw_alerts", <<>>, bw_outcome(df, blocked_records))

set_azivac_alerts ==
    /\ prog = "alerts"
    /\ RunSetOp("set_azivac_alerts", <<>>, azivac_outcome(df, AZIVAC_ALERT, blocked_records))

set_nc_cohort_alerts ==
    /\ prog = "alerts"
    /\ \E listed \in BOOLEAN : RunSetOp("set_nc_cohort_alerts", <<listed>>, nc_cohort_outcome(df, status, listed))

Next ==
    \/ Export
    \/ GetCustomStatus
    \/ set_tbv_alerts
    \/ set_nv_alerts
    \/ set_nc_alerts
    \/ set_new_ms_alerts
    \/ set_mrv2_alerts
    \/ set_end_fu_alerts
    \/ set_bw_alerts
    \/ set_azivac_alerts
    \/ set_nc_cohort_alerts

Spec == Init /\ [][Next]_vars

-----------------------------------------------------------------------------
(* Properties of the set_* functions of alerts.py *)

\* the values the import_records calls of the last function sent for p, in order
Sent(p) == {last.calls[i].data[p] : i \in {j \in 1..Len(last.calls) : p \in DOMAIN last.calls[j].data}}

\* participants whose snapshot status is a manual annotation: not null, not blank,
\* starting with none of the defined alert codes
Annotated ==
    {p \in Participants :
        /\ df.status[p] # NaN
        /\ df.status[p][1] \notin Blanks(7)
        /\ \A i \in 1..Len(TRIAL_DEFINED_ALERTS) : ~startswith(df.status[p][1], TRIAL_DEFINED_ALERTS[i])}

\* C2: a set_* function called with the blocked records of its snapshot flags no
\* participant whose snapshot status is a manual annotation and writes no alert
\* string for such a participant; stated here for set_end_fu_alerts with its
\* to-be-flagged, completed and unreachable sets.
C2_CustomStatusProtected ==
    last.op = "set_end_fu_alerts" =>
        \A p \in Annotated : p \notin last.to_flag /\ Sent(p) \subseteq {""}

\* C3: a set_* function run a second time right after itself, on the same data frame,
\* with the same arguments and the same today, leaves every status as the first run
\* left it.
C3_Idempotent ==
    [][(last'.op \in SetOps /\ last'.before = <<last.op, last.args>> /\ last'.args = last.args
        /\ last'.op = last.op)
       => status' = status]_vars

\* set_tbv_alerts has run twice in a row and wrote an alert both times
C3_Witness ==
    /\ last.op = "set_tbv_alerts" /\ last.before = <<"set_tbv_alerts", <<>>>>
    /\ \E p \in last.to_flag : status[p] # "" /\ status[p] \in Sent(p)

-----------------------------------------------------------------------------
(* The eligibility predicates of alerts.py evaluated on an exported data  *)
(* frame, with thresholds around the configured ones                      *)

NextVisitAround ==
    {NoFields} \cup {[int_next_visit |-> Today0 + t] : t \in {-28, -27, -8, -7, -1, 0, 1, 7, 8}}
\* an earlier visit with an older return date, or none
EarlierVisit == {<<>>, <<EventRow("epipenta2_v1_iptis_arm_1", [int_next_visit |-> Today0 - 60])>>}
NextVisitHistories == {<<EpiRow(n)>> \o e : n \in NextVisitAround, e \in EarlierVisit}

ContactAttempt ==
    {[hh_child_seen |-> 1, hh_date |-> Today0 - 20],
     [hh_child_seen |-> 0, hh_why_not_child_seen |-> 1, hh_date |-> Today0 - 20],
     [fu_type |-> 1, phone_success |-> 0, hh_date |-> Today0 - 20],
     [fu_type |-> 2, hh_child_seen |-> 0, reachable_status |-> 2, hh_date |-> Today0 - 20],
     [fu_type |-> 2, hh_child_seen |-> 0, reachable_status |-> 1, hh_date |-> Today0 - 20]}
ContactHistories ==
    {<<EpiRow([int_azi |-> 1, int_date |-> Today0 - 47]), HouseholdRow(c)>> : c \in ContactAttempt}

BirthHistories ==
    {<<EpiRow([int_date |-> Today0 - 46] @@ b)>> : b \in {Born(2023, 1, 7), Born(2023, 1, 10), Born(2023, 1, 15)}}
    \cup {<<EpiRow([int_date |-> Today0 - 46] @@ Born(2023, 1, 7)), EndOfFollowUpRow(e)>> :
              e \in {[hh_child_seen |-> 1, household_follow_up_complete |-> 2, hh_date |-> Today0 - 2],
                     [reachable_status |-> 2, hh_date |-> Today0 - 2]}}

\* return date 40 days ago: a non-compliance visit before, on or after it, or the
\* EPI schedule ended at the second MRV visit, completed or not
NonCompliantHistories ==
    {<<EpiRow([int_next_visit |-> Today0 - 40]),
       EventRow("epipenta2_v1_iptis_arm_1", [comp_date |-> Today0 - c])>> : c \in {45, 40, 30}}
    \cup {<<EpiRow([int_next_visit |-> Today0 - 40]),
            EventRow("epimvr2_v6_iptisp6_arm_1", [intervention_complete |-> c])>> : c \in {1, 2}}

\* born 17 months and 23 days, 17 months and 15 days, and 15 months ago; and an
\* 18 months old child whose end of follow up was closed by phone
MoreBirthHistories ==
    {<<EpiRow([int_date |-> Today0 - 46] @@ b)>> : b \in {Born(2023, 1, 17), Born(2023, 1, 25), Born(2023, 4, 5)}}
    \cup {<<EpiRow([int_date |-> Today0 - 46] @@ Born(2023, 1, 7)),
            EndOfFollowUpRow([phone_child_status |-> 4, hh_date |-> Today0 - 2])>>}

\* last contact 50 days ago at the 18 month household visit, form complete or not
SurveyHistories ==
    {<<EpiRow([int_date |-> Today0 - 60]),
       EndOfFollowUpRow([household_follow_up_complete |-> c, hh_date |-> Today0 - 50])>> : c \in {1, 2}}

PredHistories ==
    NextVisitHistories \cup ContactHistories \cup BirthHistories \cup NonCompliantHistories
        \cup MoreBirthHistories \cup SurveyHistories

DaysBefore == {0, DAYS_BEFORE_NV}
DaysAfter == {0, DAYS_AFTER_NV}

Predicates ==
    {"get_record_ids_tbv", "get_record_ids_nv", "get_record_ids_nc", "get_record_ids_new_ms",
     "get_record_ids_end_trial_fu"}

InitPred ==
    /\ prog = "pred"
    /\ table \in [Participants -> PredHistories]
    /\ status = [p \in Participants |-> ""]
    /\ df = EmptyFrame
    /\ today \in {[day |-> Today0, frac |-> f] : f \in {0, 1}}
    /\ blocked_records = None
    /\ last = NoOp
    /\ pc = "start"
    /\ nops = 0

\* one call of a predicate on df: what it returned, and the columns it cast in place
RunPredicate(name, args, raised, out, cast) ==
    /\ pc = "ready" /\ nops < MaxOps
    /\ df' = to_datetime(df, cast)
    /\ last' = Returned(name, args, <<>>, out)
    /\ pc' = IF raised THEN "raised" ELSE "ready"
    /\ nops' = nops + 1
    /\ UNCHANGED <<prog, table, status, today, blocked_records>>

EvalTbv ==
    /\ prog = "pred"
    /\ RunPredicate("get_record_ids_tbv", <<>>, get_record_ids_tbv(df).raised,
                    <<get_record_ids_tbv(df).ids>>, {})

EvalNv ==
    /\ prog = "pred"
    /\ \E days_before \in DaysBefore, days_after \in DaysAfter :
          RunPredicate("get_record_ids_nv", <<days_before, days_after>>, FALSE,
                       <<get_record_ids_nv(df, days_before, days_after)>>, {"int_next_visit"})

EvalNc ==
    /\ prog = "pred"
    /\ RunPredicate("get_record_ids_nc", <<DAYS_TO_NC>>, FALSE,
                    <<get_record_ids_nc(df, DAYS_TO_NC)>>, {"int_next_visit", "comp_date"})

EvalNewMs ==
    /\ prog = "pred"
    /\ \E excluded_epi_visits \in {NEW_MS_EXCLUDED_EPI_VISITS, {"hhafter_1st_dose_o_arm_1"}} :
          RunPredicate("get_record_ids_new_ms", <<NEW_DAYS_AFTER_EPI, excluded_epi_visits>>, FALSE,
                       <<get_record_ids_new_ms(df, NEW_DAYS_AFTER_EPI, excluded_epi_visits)>>,
                       NEW_MS_DATE_COLUMNS)

EvalEndTrialFu ==
    /\ prog = "pred"
    /\ \E days_before \in DaysBefore :
          RunPredicate("get_record_ids_end_trial_fu", <<days_before>>, no_dobs(df),
                       <<get_record_ids_end_trial_fu(df, days_before, 18, 17)>>, {"child_dob"})

NextPred == Export \/ EvalTbv \/ EvalNv \/ EvalNc \/ EvalNewMs \/ EvalEndTrialFu

SpecPred == InitPred /\ [][NextPred]_vars

UntilNextVisit(p) == Max(Column(df, p, "int_next_visit")) - today.day
Scheduled == {p \in Participants : Column(df, p, "int_next_visit") # {}}

\* C5 as stated: a return date exactly days_before days before today is in the
\* Next-Visit set, one day further in the past is not.
C5_AsStated ==
    last.op = "get_record_ids_nv" =>
        \A p \in Scheduled :
            /\ UntilNextVisit(p) = -last.args[1] => p \in last.out[1]
            /\ UntilNextVisit(p) = -last.args[1] - 1 => p \notin last.out[1]

\* C5: the window is closed at the future end and open at the past end: a return
\* date days_before days after today is in the Next-Visit set and one day later is
\* not; a return date days_after days before today is not in the set and one day
\* less far in the past is (when the window is not empty).
C5_Window ==
    last.op = "get_record_ids_nv" =>
        LET days_before == last.args[1]
            days_after == last.args[2]
        IN \A p \in Scheduled :
              /\ UntilNextVisit(p) = days_before + 1 => p \notin last.out[1]
              /\ UntilNextVisit(p) = -days_after => p \notin last.out[1]
              /\ days_before + days_after >= 1 =>
                    /\ UntilNextVisit(p) = days_before => p \in last.out[1]
                    /\ UntilNextVisit(p) = 1 - days_after => p \in last.out[1]

\* with the configured thresholds, one participant on the last day of the window
\* and one a day too far ahead
C5_Witness ==
    /\ last.op = "get_record_ids_nv" /\ last.args = <<DAYS_BEFORE_NV, DAYS_AFTER_NV>>
    /\ \E p, q \in Scheduled :
          /\ UntilNextVisit(p) = DAYS_BEFORE_NV /\ p \in last.out[1]
          /\ UntilNextVisit(q) = DAYS_BEFORE_NV + 1 /\ q \notin last.out[1]

-----------------------------------------------------------------------------
(* Both scripts, each on its own projects *)

InitBoth == InitMain \/ Init
NextBoth == NextMain \/ Next
SpecBoth == InitBoth /\ [][NextBoth]_vars

\* what the script's get_record_ids_tbv returns on the exported data frame
ToBeVisited == IF prog = "main" THEN main_get_record_ids_tbv(df) ELSE get_record_ids_tbv(df).ids
InNextVisitWindow == get_record_ids_nv(df, DAYS_BEFORE_NV, DAYS_AFTER_NV)

\* C6: set_nv_alerts, in main.py and in alerts.py, sends no status starting with the
\* Next-Visit code for a participant get_record_ids_tbv returns on the same data
\* frame.
C6_TbvPriority ==
    last.op = "set_nv_alerts" =>
        \A p \in ToBeVisited : \A v \in Sent(p) : ~startswith(v, NV_ALERT)

\* set_nv_alerts has run on a data frame with a to-be-visited participant inside the
\* Next-Visit window, and has flagged somebody else
C6_Witness ==
    /\ last.op = "set_nv_alerts"
    /\ ToBeVisited \cap InNextVisitWindow # {}
    /\ \E q \in Participants \ ToBeVisited : \E v \in Sent(q) : startswith(v, NV_ALERT)

\* the alert code each of the five prefix set_* functions is called with
AlertOf ==
    [op \in {"set_tbv_alerts", "set_nv_alerts", "set_nc_alerts", "set_new_ms_alerts", "set_mrv2_alerts"} |->
        CASE op = "set_tbv_alerts" -> TBV_ALERT
          [] op = "set_nv_alerts" -> NV_ALERT
          [] op = "set_nc_alerts" -> NC_ALERT
          [] op = "set_new_ms_alerts" -> NEW_MS_ALERT
          [] op = "set_mrv2_alerts" -> MRV2_ALERT]

\* the ids sent '' are the ids with the alert active on the data frame minus the ids to flag
RemovalIsExact ==
    (last.op \in DOMAIN AlertOf /\ pc # "raised") =>
        {p \in Participants : "" \in Sent(p)}
            = get_active_alerts(df, AlertOf[last.op], "Normal").ids \ last.to_flag

\* C7: a set_* function that returns sends '' to exactly the ids whose status on the
\* data frame carries its alert code and that are not to be flagged, and sends a
\* non-empty status starting with its alert code to every id to be flagged.
C7_RemovalAndSetup ==
    /\ RemovalIsExact
    /\ (last.op \in DOMAIN AlertOf /\ pc # "raised") =>
           \A p \in last.to_flag : \E v \in Sent(p) : v # "" /\ startswith(v, AlertOf[last.op])

-----------------------------------------------------------------------------
(* get_active_alerts of both scripts on the statuses a project can hold *)

StoredStatuses ==
    {"", "TBV@Lungi AZi/Pbo@May 11", "COH.TBV@Lungi AZi/Pbo@May 11", "NEXT VISIT: Jun 30",
     "END F/U Pending: Jul 07(BW)", "(BW)", "BW", "TB", "COH.MRV2 Pending", "seen by nurse"}
AlertCodes == {TBV_ALERT, NV_ALERT, END_FU_ALERT, MRV2_ALERT, BW_ALERT}

InitStatus ==
    /\ prog = "status"
    /\ table = [p \in Participants |-> <<EpiRow(NoFields)>>]
    /\ status \in [Participants -> StoredStatuses]
    /\ df = EmptyFrame
    /\ today = [day |-> Today0, frac |-> 1]
    /\ blocked_records = None
    /\ last = NoOp
    /\ pc = "start"
    /\ nops = 0

\* alerts.py: get_active_alerts(redcap_data, alert, fu_status_event, type_)
EvalActive ==
    /\ prog = "status" /\ pc = "ready" /\ nops < MaxOps
    /\ \E alert \in AlertCodes, type_ \in {"Normal", "BW"} :
          last' = Returned("get_active_alerts", <<alert, type_>>, <<>>,
                           <<get_active_alerts(df, alert, type_)>>)
    /\ nops' = nops + 1
    /\ UNCHANGED <<prog, table, status, df, today, blocked_records, pc>>

\* main.py: get_active_alerts(redcap_data, alert)
EvalMainActive ==
    /\ prog = "status" /\ pc = "ready" /\ nops < MaxOps
    /\ \E alert \in AlertCodes :
          last' = Returned("main.get_active_alerts", <<alert, "Normal">>, <<>>,
                           <<main_get_active_alerts(df, alert)>>)
    /\ nops' = nops + 1
    /\ UNCHANGED <<prog, table, status, df, today, blocked_records, pc>>

NextStatus == Export \/ EvalActive \/ EvalMainActive

SpecStatus == InitStatus /\ [][NextStatus]_vars

\* the ids whose status on the data frame is not null and carries the code
Carrying(alert, type_) ==
    {p \in Participants :
        /\ df.status[p] # NaN
        /\ IF type_ = "BW" THEN endswith(df.status[p][1], alert)
           ELSE startswith(df.status[p][1], alert) \/ startswith(df.status[p][1], "COH." \o alert)}

\* C8 as stated, for the get_active_alerts of either script: the ids returned are
\* the ids whose status is not null and starts with the code or with COH. and the
\* code (type BW: ends with the code).
C8_AsStated ==
    last.op \in {"get_active_alerts", "main.get_active_alerts"} =>
        last.out[1].ids = Carrying(last.args[1], last.args[2])

\* C8: get_active_alerts of alerts.py returns None when every status is null, and
\* otherwise the ids whose status is not null and starts with the code or with COH.
\* and the code (type BW: ends with the code); get_active_alerts of main.py returns
\* None when every status is null and otherwise the ids whose status starts with
\* the code.
C8_ActiveAlerts ==
    /\ last.op = "get_active_alerts" =>
          /\ last.out[1].ids = Carrying(last.args[1], last.args[2])
          /\ last.out[1].none <=> \A p \in Participants : df.status[p] = NaN
    /\ last.op = "main.get_active_alerts" =>
          /\ last.out[1].ids = {p \in Participants : df.status[p] # NaN /\ startswith(df.status[p][1], last.args[1])}
          /\ last.out[1].none <=> \A p \in Participants : df.status[p] = NaN

\* alerts.py's function has returned one participant, for a status with the COH.
\* label, next to a participant with a null status
C8_Witness ==
    /\ last.op = "get_active_alerts" /\ last.args = <<TBV_ALERT, "Normal">>
    /\ \E p, q \in Participants :
          /\ df.status[p] = Str("COH.TBV@Lungi AZi/Pbo@May 11") /\ df.status[q] = NaN
          /\ last.out[1].ids = {p}

-----------------------------------------------------------------------------
(* The statuses the set_* functions of alerts.py leave *)

\* the codes the set_* functions look for at the start and at the end of a status
PrefixCodes == {TBV_ALERT, NV_ALERT, NC_ALERT, NEW_MS_ALERT, MRV2_ALERT, END_FU_ALERT}
SuffixCodes == {BW_ALERT, AZIVAC_ALERT, AZIVAC_ALERT_SERIOUS}

\* the participants whose status is the one the last function wrote
Written == {p \in Participants : status[p] # "" /\ status[p] \in Sent(p)}

\* the codes get_active_alerts counts p for on a fresh export of the project
ActivePrefixCodes(p) == {c \in PrefixCodes : p \in get_active_alerts(export_records, c, "Normal").ids}
ActiveSuffixCodes(p) == {c \in SuffixCodes : p \in get_active_alerts(export_records, c, "BW").ids}

\* C9 as stated: a status a set_* function has left is counted as active for at
\* most one alert code.
C9_AsStated ==
    last.op \in SetOps =>
        \A p \in Written : Cardinality(ActivePrefixCodes(p) \cup ActiveSuffixCodes(p)) <= 1

\* C9: a status a set_* function has left is counted as active for at most one of
\* the codes looked for at the start of a status and for at most one of the codes
\* looked for at its end.
C9_OnePrefixOneSuffix ==
    last.op \in SetOps =>
        \A p \in Written :
            /\ Cardinality(ActivePrefixCodes(p)) <= 1
            /\ Cardinality(ActiveSuffixCodes(p)) <= 1

\* a function has left a status that carries a code at its start and one at its end
C9_Witness ==
    /\ last.op \in SetOps
    /\ \E p \in Written : ActivePrefixCodes(p) # {} /\ ActiveSuffixCodes(p) # {}

\* the data frame with every child_fu_status null
BlankFrame == [df EXCEPT !.status = [p \in Participants |-> NaN]]

\* what the function run last, with its arguments, sends on the blank data frame
OutcomeIfBlank ==
    CASE last.op = "set_tbv_alerts" -> tbv_outcome(BlankFrame, blocked_records)
      [] last.op = "set_nv_alerts" -> nv_outcome(BlankFrame, blocked_records, DAYS_BEFORE_NV, DAYS_AFTER_NV)
      [] last.op = "set_nc_alerts" -> nc_outcome(BlankFrame, blocked_records, DAYS_TO_NC)
      [] last.op = "set_new_ms_alerts" ->
            new_ms_outcome(BlankFrame, blocked_records, NEW_DAYS_AFTER_EPI, TRIAL_ALL_EVENT_NAMES,
                           NEW_MS_EXCLUDED_EPI_VISITS)
      [] last.op = "set_mrv2_alerts" ->
            mrv2_outcome(BlankFrame, blocked_records, DAYS_BEFORE_MRV2, MRV2_MONTHS)
      [] last.op = "set_end_fu_alerts" ->
            end_fu_outcome(BlankFrame, blocked_records, DAYS_BEFORE_END_FU, END_FU_TRIAL,
                           last.args[1], last.args[2])
      [] last.op = "set_bw_alerts" -> bw_outcome(BlankFrame, blocked_records)
      [] last.op = "set_azivac_alerts" -> azivac_outcome(BlankFrame, AZIVAC_ALERT, blocked_records)
      [] last.op = "set_nc_cohort_alerts" ->
            nc_cohort_outcome(BlankFrame, [p \in Participants |-> ""], last.args[1])
SentIfBlank(p) ==
    {OutcomeIfBlank.calls[i].data[p] :
        i \in {j \in 1..Len(OutcomeIfBlank.calls) : p \in DOMAIN OutcomeIfBlank.calls[j].data}}

PrefixOps ==
    {"set_tbv_alerts", "set_nv_alerts", "set_nc_alerts", "set_new_ms_alerts", "set_mrv2_alerts",
     "set_end_fu_alerts"}

\* C10 as stated: every value a set_* function sends is the empty string or the
\* value it sends for the participant when the previous statuses are all null.
C10_AsStated ==
    last.op \in SetOps =>
        \A p \in Participants : \A v \in Sent(p) : v = "" \/ v \in SentIfBlank(p)

\* C10: every value set_tbv_alerts, set_nv_alerts, set_nc_alerts, set_new_ms_alerts,
\* set_mrv2_alerts and set_end_fu_alerts send is the empty string or the value the
\* function sends for the participant when the previous statuses are all null.
C10_PrefixAlertsRebuild ==
    last.op \in PrefixOps =>
        \A p \in Participants : \A v \in Sent(p) : v = "" \/ v \in SentIfBlank(p)

\* set_nv_alerts has sent a Next-Visit string to a participant who had a status
C10_Witness ==
    /\ last.op = "set_nv_alerts"
    /\ \E p \in last.to_flag :
          /\ df.status[p] # NaN
          /\ \E v \in Sent(p) : startswith(v, NV_ALERT)

-----------------------------------------------------------------------------
(* get_record_ids_with_custom_status on statuses typed by hand *)

TypedStatuses ==
    {"", " ", "  ", "      ", "       ", "        ", "seen by nurse", " moved away",
     "TBV@Lungi AZi/Pbo@May 11", "NEXT VISIT: Jun 30"}

InitCustom ==
    /\ prog = "alerts"
    /\ table = [p \in Participants |-> <<EpiRow(NoFields)>>]
    /\ status \in [Participants -> TypedStatuses]
    /\ df = EmptyFrame
    /\ today = [day |-> Today0, frac |-> 1]
    /\ blocked_records = None
    /\ last = NoOp
    /\ pc = "start"
    /\ nops = 0

NextCustom == Export \/ GetCustomStatus

SpecCustom == InitCustom /\ [][NextCustom]_vars

\* a status made of spaces only
OnlySpaces(s) == Len(s) >= 1 /\ \A i \in 1..Len(s) : SubSeq(s, i, i) = " "

\* C11: get_record_ids_with_custom_status sends the empty string for every
\* participant whose status on the data frame is made of spaces only, whatever its
\* length, and does not return that participant among the custom statuses.
C11_BlankStatusCleared ==
    last.op = "get_record_ids_with_custom_status" =>
        \A p \in Participants :
            (df.status[p] # NaN /\ OnlySpaces(df.status[p][1])) =>
                /\ "" \in Sent(p)
                /\ p \notin last.out[1].ids

-----------------------------------------------------------------------------
(* The eligibility rules, stated on the rows of the exported data frame *)

\* the rows of p on which field f has value v
RowsWith(p, f, v) == {i \in RowIdx(df, p) : Has(df.rows[p][i], f) /\ df.rows[p][i][f] = v}

\* doses administered minus household visits in which the child was seen
azi_supervision(p) == Cardinality(RowsWith(p, "int_azi", 1)) - Cardinality(RowsWith(p, "hh_child_seen", 1))

\* C12: get_record_ids_tbv of main.py returns the participants whose supervision
\* index (doses administered minus household visits with the child seen) is
\* strictly positive, and nobody with an index of zero or less.
C12_PositiveIndex ==
    (prog = "main" /\ last.op = "set_tbv_alerts") =>
        last.to_flag = {p \in Participants : azi_supervision(p) > 0}

\* one participant with index one returned next to a dosed participant with index zero
C12_Witness ==
    /\ prog = "main" /\ last.op = "set_tbv_alerts"
    /\ \E p, q \in Participants :
          /\ azi_supervision(p) = 1 /\ p \in last.to_flag
          /\ azi_supervision(q) = 0 /\ RowsWith(q, "int_azi", 1) # {} /\ q \notin last.to_flag

\* the cell of field f on the most recent household visit row of p, NaN when blank
MostRecentVisit(p, f) ==
    LET i == Max(EventRows(df, p, "hhafter_1st_dose_o_arm_1"))
    IN IF Has(df.rows[p][i], f) THEN <<df.rows[p][i][f]>> ELSE NaN

\* (a) dosed and no household visit row, (b) most recent household visit unsuccessful
DosedNotVisited ==
    {p \in Participants :
        RowsWith(p, "int_azi", 1) # {} /\ EventRows(df, p, "hhafter_1st_dose_o_arm_1") = {}}
LastContactUnsuccessful ==
    {p \in Participants :
        /\ EventRows(df, p, "hhafter_1st_dose_o_arm_1") # {}
        /\ \/ /\ MostRecentVisit(p, "fu_type") = <<1>>
              /\ MostRecentVisit(p, "phone_success") = <<0>> \/ MostRecentVisit(p, "call_caretaker") = <<0>>
           \/ /\ MostRecentVisit(p, "fu_type") \in {<<2>>, <<3>>}
              /\ MostRecentVisit(p, "hh_child_seen") # <<1>>
              /\ MostRecentVisit(p, "reachable_status") # <<1>>
           \/ /\ MostRecentVisit(p, "fu_type") \notin {<<1>>, <<2>>, <<3>>}
              /\ MostRecentVisit(p, "hh_child_seen") = <<0>>
              /\ MostRecentVisit(p, "hh_why_not_child_seen") = <<1>>}

\* C13: get_record_ids_tbv of alerts.py, when it returns, returns the participants
\* with an administered dose and no household visit row together with the
\* participants whose most recent household visit row is unsuccessful under the
\* rule of its contact type, and nobody else.
C13_TbvUnion ==
    (last.op = "get_record_ids_tbv" /\ pc # "raised") =>
        last.out[1] = DosedNotVisited \cup LastContactUnsuccessful

\* the latest return date and the latest non-compliance visit date of p
LatestReturnDate(p) == Max(Column(df, p, "int_next_visit"))
VisitedAfterReturnDate(p) ==
    Column(df, p, "comp_date") # {} /\ Max(Column(df, p, "comp_date")) > LatestReturnDate(p)

\* C14: get_record_ids_nc of alerts.py returns the participants with a return date
\* recorded for whom today, date and time of day, minus the latest return date is
\* strictly more than days_to_nc days, whose latest comp_date is not later than
\* that return date, and who have no row of the second MRV visit with
\* intervention_complete = 2; nobody else.
C14_NonCompliant ==
    last.op = "get_record_ids_nc" =>
        last.out[1] =
            {p \in Scheduled :
                /\ \/ today.day - LatestReturnDate(p) > last.args[1]
                   \/ today.day - LatestReturnDate(p) = last.args[1] /\ today.frac > 0
                /\ ~VisitedAfterReturnDate(p)
                /\ \A i \in EventRows(df, p, "epimvr2_v6_iptisp6_arm_1") :
                      i \notin RowsWith(p, "intervention_complete", 2)}

\* returned: one participant whose non-compliance visit was on the return date;
\* left out: one who completed the EPI schedule, though as late
C14_Witness ==
    /\ last.op = "get_record_ids_nc"
    /\ \E p, q \in Scheduled :
          /\ p \in last.out[1] /\ Column(df, p, "comp_date") = {LatestReturnDate(p)}
          /\ q \notin last.out[1] /\ RowsWith(q, "intervention_complete", 2) # {}
          /\ LatestReturnDate(q) = LatestReturnDate(p)

\* date of birth of p as year, month, day, and the day p turns 18 months
BornOn(p) == CivilFromDays(Max(Column(df, p, "child_dob")))
MonthsOld(p) == (CivilFromDays(today.day).year - BornOn(p).year) * 12
                    + CivilFromDays(today.day).month - BornOn(p).month
TurnsEighteenMonths(p) ==
    DaysFromCivil(BornOn(p).year + (BornOn(p).month + 17) \div 12, ((BornOn(p).month + 17) % 12) + 1,
                  BornOn(p).day)
\* whole days from now to the start of that day
DaysUntilEighteenMonths(p) == TurnsEighteenMonths(p) - today.day - (IF today.frac > 0 THEN 1 ELSE 0)

\* rows of the 18 month household visit that close the follow up
TerminalVisit(p) ==
    {i \in EventRows(df, p, "hhat_18th_month_of_arm_1") :
        /\ i \in RowsWith(p, "redcap_repeat_instrument", "household_follow_up")
        /\ \/ i \in RowsWith(p, "hh_child_seen", 1)
           \/ \E c \in {1, 4} : i \in RowsWith(p, "phone_child_status", c)
           \/ \E c \in {1, 4, 5} : i \in RowsWith(p, "hh_why_not_child_seen", c)}
MarkedUnreachable(p) ==
    {i \in EventRows(df, p, "hhat_18th_month_of_arm_1") :
        /\ i \in RowsWith(p, "redcap_repeat_instrument", "household_follow_up")
        /\ i \in RowsWith(p, "reachable_status", 2)}

\* C15: get_record_ids_end_trial_fu flags the participants with a date of birth
\* whose age in calendar months is at least 17 and whose whole days until the day
\* they turn 18 months are fewer than days_before, except those with a terminal 18
\* month visit row and those marked unreachable; nobody else.
C15_EndOfTrialFollowUp ==
    (last.op = "get_record_ids_end_trial_fu" /\ pc # "raised") =>
        last.out[1].about_18m_not_seen =
            {p \in Participants :
                /\ Column(df, p, "child_dob") # {}
                /\ MonthsOld(p) >= 17
                /\ DaysUntilEighteenMonths(p) < last.args[1]
                /\ TerminalVisit(p) = {}
                /\ MarkedUnreachable(p) = {}}

\* on 2024-07-10 with days_before = 7: born 2023-01-15 and flagged, next to one born
\* 2023-01-25 and not flagged
C15_Witness ==
    /\ last.op = "get_record_ids_end_trial_fu" /\ last.args = <<7>>
    /\ today.day = DaysFromCivil(2024, 7, 10)
    /\ \E p, q \in Participants :
          /\ Column(df, p, "child_dob") = {DaysFromCivil(2023, 1, 15)}
          /\ p \in last.out[1].about_18m_not_seen
          /\ Column(df, q, "child_dob") = {DaysFromCivil(2023, 1, 25)}
          /\ q \notin last.out[1].about_18m_not_seen

\* C16 as stated: the completed and the unreachable participants
\* get_record_ids_end_trial_fu returns on the data frame of set_end_fu_alerts have
\* no id in common, and set_end_fu_alerts sends no participant both the completed
\* and the unreachable string.
C16_AsStated ==
    last.op = "set_end_fu_alerts" =>
        /\ get_record_ids_end_trial_fu(df, DAYS_BEFORE_END_FU, 18, 17).record_ids_seen
              \cap get_record_ids_end_trial_fu(df, DAYS_BEFORE_END_FU, 18, 17).records_unreachable = {}
        /\ \A p \in Participants : ~({COMPLETION_STRING, UNREACHABLE_STRING} \subseteq Sent(p))

\* what get_record_ids_end_trial_fu returns on the data frame of set_end_fu_alerts
EndOfFollowUp == get_record_ids_end_trial_fu(df, DAYS_BEFORE_END_FU, 18, 17)

\* C16: the completed and the unreachable participants can overlap (unreachable at
\* one 18 month visit, seen at another); set_end_fu_alerts called with both strings
\* leaves the completed string on every completed participant, the unreachable
\* ones among them included.
C16_CompletedWins ==
    (last.op = "set_end_fu_alerts" /\ last.args = <<Str(COMPLETION_STRING), Str(UNREACHABLE_STRING)>>) =>
        \A p \in EndOfFollowUp.record_ids_seen : status[p] = COMPLETION_STRING

\* a participant in both sets was sent both strings and ends completed
C16_Witness ==
    /\ last.op = "set_end_fu_alerts"
    /\ \E p \in EndOfFollowUp.record_ids_seen \cap EndOfFollowUp.records_unreachable :
          /\ {COMPLETION_STRING, UNREACHABLE_STRING} \subseteq Sent(p)
          /\ status[p] = COMPLETION_STRING

\* the contact dates of p on the rows whose event is not in the excluded list
ContactDates(p, excluded) ==
    UNION {{df.rows[p][i][f] : f \in {g \in NEW_MS_DATE_COLUMNS : Has(df.rows[p][i], g)}} :
              i \in {j \in RowIdx(df, p) : df.rows[p][j].redcap_event_name \notin excluded}}
FollowUpCompleted ==
    {p \in Participants :
        EventRows(df, p, "hhat_18th_month_of_arm_1") \cap RowsWith(p, "household_follow_up_complete", 2) # {}}

-----------------------------------------------------------------------------
(* set_azivac_alerts on AziVac collections of this and the last months *)

\* the AziVac sample of the first MRV visit, with its study number
AzivacSample(y, m, day) ==
    EventRow("epimvr1_v4_iptisp4_arm_1",
             [azivac_study_number |-> "AV-7", azivac_date |-> DaysFromCivil(y, m, day)])
\* the endline sample of the vitamin A visit
EndlineSample ==
    EventRow("epivita_v5_iptisp5_arm_1",
             [azivac_study_number |-> "AV-7", azivac_date |-> DaysFromCivil(2024, 7, 1)])

AzivacHistories ==
    {<<EpiRow([child_birth_weight_known |-> 1])>> \o v4 \o v5 :
        v4 \in {<<>>, <<EventRow("epimvr1_v4_iptisp4_arm_1", [int_date |-> Today0 - 20])>>,
                <<AzivacSample(2024, 7, 2)>>, <<AzivacSample(2024, 6, 30)>>, <<AzivacSample(2024, 5, 1)>>,
                <<AzivacSample(2024, 4, 15)>>, <<AzivacSample(2024, 3, 31)>>},
        v5 \in {<<>>, <<EndlineSample>>}}

AzivacStatuses ==
    {"", "seen by nurse", "TBV@Lungi AZi/Pbo@May 11", "SURVEILLANCE AFTER MRV1(AV)",
     "SURVEILLANCE AFTER MRV1(AV-S)", "COMPLETED. 18 months of age"}

InitAzivac ==
    /\ prog = "alerts"
    /\ table \in [Participants -> AzivacHistories]
    /\ status \in [Participants -> AzivacStatuses]
    /\ df = EmptyFrame
    /\ today = [day |-> Today0, frac |-> 1]
    /\ blocked_records = None
    /\ last = NoOp
    /\ pc = "start"
    /\ nops = 0

NextAzivac == Export \/ GetCustomStatus \/ set_azivac_alerts

SpecAzivac == InitAzivac /\ [][NextAzivac]_vars

\* whole months from the AziVac date of a V4 row of p to today: years and months
\* only, the day of the month left out
MonthsSinceSample(p) ==
    {(CivilFromDays(today.day).year - CivilFromDays(df.rows[p][i].azivac_date).year) * 12
         + CivilFromDays(today.day).month - CivilFromDays(df.rows[p][i].azivac_date).month :
        i \in {j \in EventRows(df, p, "epimvr1_v4_iptisp4_arm_1") :
                  Has(df.rows[p][j], "azivac_study_number") /\ Has(df.rows[p][j], "azivac_date")}}
HasEndlineSample(p) ==
    \E i \in EventRows(df, p, "epivita_v5_iptisp5_arm_1") :
        Has(df.rows[p][i], "azivac_study_number") /\ Has(df.rows[p][i], "azivac_date")
\* the participants set_azivac_alerts is told to ignore: custom statuses
Ignored == IF blocked_records.none THEN {} ELSE blocked_records.ids

\* the participants of the setup import of each tier: with a status somewhere to
\* remove the function issues removal, setup, removal, setup; without, the two setups
SetupCalls == {i \in 1..Len(last.calls) : last.calls[i].overwrite = "normal"}
AvTier == IF SetupCalls = {} THEN {} ELSE DOMAIN last.calls[Max(SetupCalls) - Len(last.calls) \div 2].data
AvSeriousTier == IF SetupCalls = {} THEN {} ELSE DOMAIN last.calls[Max(SetupCalls)].data

-----------------------------------------------------------------------------
(* the predicates and the data frame they are given *)

\* C19: the evaluation of a predicate leaves the data frame it is given as it was,
\* the values and the types of its columns, and writes nothing to the record
\* store.
C19_NoSideEffects ==
    [][(nops' = nops + 1 /\ last'.op \in Predicates) =>
          (df' = df /\ table' = table /\ status' = status /\ last'.calls = <<>>)]_vars

-----------------------------------------------------------------------------
(* the predicates on participants without the date they read *)

\* C20: a predicate that reads a date returns, whoever lacks that date, and returns
\* nobody who lacks it: nobody without a return date from get_record_ids_nv and
\* get_record_ids_nc, nobody without a date of birth from
\* get_record_ids_end_trial_fu, nobody without any of the contact dates from
\* get_record_ids_new_ms.
C20_MissingDates ==
    /\ last.op \in {"get_record_ids_nv", "get_record_ids_nc"} =>
          (pc # "raised" /\ \A p \in last.out[1] : Column(df, p, "int_next_visit") # {})
    /\ last.op = "get_record_ids_end_trial_fu" =>
          (pc # "raised" /\ \A p \in last.out[1].about_18m_not_seen : Column(df, p, "child_dob") # {})
    /\ last.op = "get_record_ids_new_ms" =>
          (pc # "raised" /\ \A p \in DOMAIN last.out[1] : ContactDates(p, last.args[2]) # {})

-----------------------------------------------------------------------------
(* the two imports of a set_* function *)

RemovalSetupOps ==
    {"set_tbv_alerts", "set_nv_alerts", "set_nc_alerts", "set_new_ms_alerts", "set_mrv2_alerts"}
RemovalCalls == {i \in 1..Len(last.calls) : last.calls[i].overwrite = "overwrite"}
SetupImports == {i \in 1..Len(last.calls) : last.calls[i].overwrite = "normal"}
\* the participants whose snapshot status carries the TBV alert and who are not to
\* be flagged any more
TbvToClear ==
    IF get_active_alerts(df, TBV_ALERT, "Normal").none THEN {}
    ELSE get_active_alerts(df, TBV_ALERT, "Normal").ids \ last.to_flag
TbvPredicateReturned ==
    HasEvent(df, "epipenta1_v0_recru_arm_1") /\ HasEvent(df, "hhafter_1st_dose_o_arm_1")

-----------------------------------------------------------------------------
(* get_record_ids_end_trial_fu day after day: each run exports the project and *)
(* evaluates the predicate; between runs days pass and visits are recorded     *)

DayHistories ==
    {<<EpiRow([int_date |-> Today0 - 46] @@ b)>> :
        b \in {NoFields, Born(2023, 1, 15), Born(2023, 1, 25), Born(2023, 2, 20), Born(2023, 4, 5)}}
\* an 18 month household visit: child seen, family unreachable, nobody at home
EndOfFollowUpVisits ==
    {EndOfFollowUpRow(e) : e \in {[hh_child_seen |-> 1], [reachable_status |-> 2], [hh_child_seen |-> 0]}}
DaysLater == {0, 5, 31, 400}

InitDays ==
    /\ prog = "days"
    /\ table \in [Participants -> DayHistories]
    /\ status = [p \in Participants |-> ""]
    /\ df = EmptyFrame
    /\ today \in {[day |-> Today0, frac |-> f] : f \in {0, 1}}
    /\ blocked_records = None
    /\ last = NoOp
    /\ pc = "ready"
    /\ nops = 0

\* datetime.today() of a later run
LaterDay ==
    /\ prog = "days" /\ pc = "ready" /\ today.day < Today0 + 10
    /\ \E n \in DaysLater, f \in {0, 1} :
          /\ n > 0 \/ f > today.frac
          /\ today' = [day |-> today.day + n, frac |-> f]
    /\ UNCHANGED <<prog, table, status, df, blocked_records, last, pc, nops>>

\* a field worker saves the household_follow_up form of the 18 month visit
RecordVisit ==
    /\ prog = "days" /\ pc = "ready"
    /\ \E p \in Participants, row \in EndOfFollowUpVisits :
          /\ \A i \in 1..Len(table[p]) : table[p][i].redcap_event_name # "hhat_18th_month_of_arm_1"
          /\ table' = [table EXCEPT ![p] = Append(@, row)]
    /\ UNCHANGED <<prog, status, df, today, blocked_records, last, pc, nops>>

\* export_records, then get_record_ids_end_trial_fu on the data frame
EndTrialFuOfTheDay ==
    /\ prog = "days" /\ pc = "ready" /\ nops < MaxOps
    /\ \E days_before \in DaysBefore :
          /\ last' = Returned("get_record_ids_end_trial_fu", <<days_before>>, <<>>,
                              <<get_record_ids_end_trial_fu(export_records, days_before, 18, 17)>>)
    /\ df' = to_datetime(export_records, {"child_dob"})
    /\ pc' = IF no_dobs(export_records) THEN "raised" ELSE "ready"
    /\ nops' = nops + 1
    /\ UNCHANGED <<prog, table, status, today, blocked_records>>

NextDays == LaterDay \/ RecordVisit \/ EndTrialFuOfTheDay

SpecDays == InitDays /\ [][NextDays]_vars

\* C22: a participant get_record_ids_end_trial_fu flags in one run is flagged by
\* every later run with the same days_before, however many days later, unless a
\* terminal 18 month household visit or an unreachable status has been recorded
\* for her by then.
C22_FlaggedUntilVisited ==
    [][(/\ last.op = "get_record_ids_end_trial_fu" /\ last'.op = "get_record_ids_end_trial_fu"
        /\ nops' = nops + 1 /\ last'.args = last.args /\ pc' # "raised")
       => \A p \in last.out[1].about_18m_not_seen :
             \/ p \in last'.out[1].about_18m_not_seen
             \/ p \in last'.out[1].record_ids_seen \cup last'.out[1].records_unreachable]_vars

\* flagged, and flagged again more than a year later, past her second birthday,
\* with a visit on record at which nobody was at home
C22_Witness ==
    /\ last.op = "get_record_ids_end_trial_fu" /\ last.before[1] = "get_record_ids_end_trial_fu"
    /\ today.day >= Today0 + 400
    /\ \E p \in last.out[1].about_18m_not_seen :
          /\ Column(df, p, "child_dob") = {DaysFromCivil(2023, 1, 15)}
          /\ \E i \in EndOfFollowUpRows(df, p) : Is(df.rows[p][i], "hh_child_seen", {0})

-----------------------------------------------------------------------------
(* set_new_ms_alerts and the event its status names *)

\* last contact at recruitment, at the first MRV visit, at recruitment and at home
\* on one day, at the 18 month household visit (form not complete), and a recent one
SurveillanceHistories ==
    {<<EpiRow([int_date |-> Today0 - 60])>>,
     <<EpiRow([int_date |-> Today0 - 60]), EventRow("epimvr1_v4_iptisp4_arm_1", [int_date |-> Today0 - 50])>>,
     <<EpiRow([int_date |-> Today0 - 60]), HouseholdRow([hh_child_seen |-> 1, hh_date |-> Today0 - 60])>>,
     <<EpiRow([int_date |-> Today0 - 60]),
       EndOfFollowUpRow([household_follow_up_complete |-> 1, hh_date |-> Today0 - 50])>>,
     <<EpiRow([int_date |-> Today0 - 20])>>}

SurveillanceStatuses == {"", "seen by nurse", "SURVEILLANCE AFTER PENTA1"}

InitSurveillance ==
    /\ prog = "alerts"
    /\ table \in [Participants -> SurveillanceHistories]
    /\ status \in [Participants -> SurveillanceStatuses]
    /\ df = EmptyFrame
    /\ today = [day |-> Today0, frac |-> 1]
    /\ blocked_records = None
    /\ last = NoOp
    /\ pc = "start"
    /\ nops = 0

NextSurveillance == Export \/ GetCustomStatus \/ set_new_ms_alerts

SpecSurveillance == InitSurveillance /\ [][NextSurveillance]_vars

\* the rows of p holding her most recent contact date
LastContactRows(p) ==
    {i \in RowIdx(df, p) :
        \E f \in NEW_MS_DATE_COLUMNS : Has(df.rows[p][i], f) /\ df.rows[p][i][f] = Max(ContactDates(p, {}))}

\* C23: the status set_new_ms_alerts writes for a participant it flags is the
\* alert string with the name the dictionary of event names gives to an event of
\* hers whose row holds her most recent contact date.
C23_NamesLastContactEvent ==
    last.op = "set_new_ms_alerts" =>
        \A p \in last.to_flag :
            \E i \in LastContactRows(p) :
                /\ df.rows[p][i].redcap_event_name \in DOMAIN TRIAL_ALL_EVENT_NAMES
                /\ Sent(p) = {NEW_MS_ALERT_STRING(TRIAL_ALL_EVENT_NAMES[df.rows[p][i].redcap_event_name])}

-----------------------------------------------------------------------------
(* the main.py pass as a whole *)

\* C24: at the end of a main.py pass every participant to be visited who has a
\* community and an administered dose carries an alert status: no removal of an
\* alert run later in the pass has blanked what an earlier alert wrote.
C24_ToBeVisitedKeepAlert ==
    (prog = "main" /\ pc = "done") =>
        \A p \in Participants :
            (azi_supervision(p) > 0 /\ Column(df, p, "community") # {} /\ 1 \in Column(df, p, "int_azi"))
                => status[p] # ""

-----------------------------------------------------------------------------
(* main.py run twice on one project, nothing else changing in between *)

\* the script is started again: the second run exports the store the first run left
MainSecondPass ==
    /\ prog = "main" /\ pc = "done" /\ nops = 3
    /\ pc' = "start"
    /\ UNCHANGED <<prog, table, status, df, today, blocked_records, last, nops>>

NextTwoPasses == MainExport \/ main_set_tbv_alerts \/ main_set_nc_alerts \/ main_set_nv_alerts \/ MainSecondPass

SpecTwoPasses == InitMain /\ [][NextTwoPasses]_vars

\* C25: at the end of the second pass every participant has the status the second
\* pass exported, which is the status the first pass left.
C25_SecondPassChangesNothing ==
    (prog = "main" /\ pc = "done" /\ nops > 3) =>
        \A p \in Participants : df.status[p] = IF status[p] = "" THEN NaN ELSE Str(status[p])

-----------------------------------------------------------------------------
(* what a set_* function of a prefix alert leaves alone *)

\* the participants the imports of the last function name
Imported == UNION {DOMAIN last.calls[i].data : i \in 1..Len(last.calls)}

\* C26: a set_* function of a prefix alert imports a status only for participants
\* it is to flag or whose status on the data frame starts with its alert code (or
\* with COH. and the code); the stored status of every other participant is after
\* the function what it was before.
C26_FrameOfPrefixAlert ==
    [][(nops' = nops + 1 /\ last'.op \in DOMAIN AlertOf) =>
          \A p \in Participants \ (last'.to_flag \cup Carrying(AlertOf[last'.op], "Normal")) :
              /\ status'[p] = status[p]
              /\ \A i \in 1..Len(last'.calls) : p \notin DOMAIN last'.calls[i].data]_vars

\* set_nv_alerts has blanked one participant and left the TBV string of another,
\* who is not in its to-be-flagged set, as it was
C26_Witness ==
    /\ last.op = "set_nv_alerts"
    /\ \E p \in Imported : status[p] = ""
    /\ \E q \in Participants \ (last.to_flag \cup Imported) :
          df.status[q] # NaN /\ startswith(df.status[q][1], TBV_ALERT) /\ status[q] = df.status[q][1]

-----------------------------------------------------------------------------
(* from the next visit alert to the non-compliant alert *)

\* the participants whose latest return date is today or past, with no later
\* non-compliance visit and no completed second MRV visit
ReturnDatePassed ==
    {p \in Scheduled :
        /\ LatestReturnDate(p) <= today.day
        /\ ~VisitedAfterReturnDate(p)
        /\ \A i \in EventRows(df, p, "epimvr2_v6_iptisp6_arm_1") :
              i \notin RowsWith(p, "intervention_complete", 2)}
InNextVisit == get_record_ids_nv(df, DAYS_BEFORE_NV, DAYS_AFTER_NV)
InNonCompliant == get_record_ids_nc(df, DAYS_TO_NC)

\* C27: with days_after = days_to_nc a participant whose return date has passed is
\* in exactly one of get_record_ids_nv and get_record_ids_nc, whatever today is.
C27_ExactlyOne ==
    last.op \in {"get_record_ids_nv", "get_record_ids_nc"} =>
        \A p \in ReturnDatePassed : (p \in InNextVisit) # (p \in InNonCompliant)

-----------------------------------------------------------------------------
(* get_record_ids_with_custom_status next to get_active_alerts *)

CarriedStatuses ==
    {"", "TBV@Lungi AZi/Pbo@May 11", "COH.TBV@Lungi AZi/Pbo@May 11", "MRV2 Pending",
     "MRV2 Pending(AV)", "seen by nurse(AV)", "seen by nurse", "COH.MRV2 Pending",
     "NEXT VISIT: Jun 30(AV-S)", "(AV)"}
DefinedAlerts == {TRIAL_DEFINED_ALERTS[i] : i \in DOMAIN TRIAL_DEFINED_ALERTS}

InitCarried ==
    /\ prog = "alerts"
    /\ table = [p \in Participants |-> <<EpiRow(NoFields)>>]
    /\ status \in [Participants -> CarriedStatuses]
    /\ df = EmptyFrame
    /\ today = [day |-> Today0, frac |-> 1]
    /\ blocked_records = None
    /\ last = NoOp
    /\ pc = "start"
    /\ nops = 0

\* alerts.py: get_active_alerts(redcap_data, alert, fu_status_event, type_) for a
\* code of TRIAL_DEFINED_ALERTS, on the data frame the custom statuses were taken from
ActiveAlertsOfDefined ==
    /\ prog = "alerts" /\ pc = "ready" /\ nops < MaxOps
    /\ \E alert \in DefinedAlerts, type_ \in {"Normal", "BW"} :
          last' = Returned("get_active_alerts", <<alert, type_>>, <<>>,
                           <<get_active_alerts(df, alert, type_)>>)
    /\ nops' = nops + 1
    /\ UNCHANGED <<prog, table, status, df, today, blocked_records, pc>>

NextCarried == Export \/ GetCustomStatus \/ ActiveAlertsOfDefined

SpecCarried == InitCarried /\ [][NextCarried]_vars

\* C28: a participant get_active_alerts returns for a code of TRIAL_DEFINED_ALERTS
\* (type Normal or BW) is not among the custom statuses
\* get_record_ids_with_custom_status returned for the same data frame.
C28_ActiveIsNotCustom ==
    last.op = "get_active_alerts" => last.out[1].ids \cap blocked_records.ids = {}

-----------------------------------------------------------------------------
(* The statuses the set_* functions write, read back by the next run *)

\* the participants whose stored status is one the last set_* function sent
WrittenBy(op) ==
    {p \in Participants :
        last.op = op /\ pc # "raised" /\ status[p] # "" /\ status[p] \in Sent(p)}
\* the custom statuses of the next run, taken from a fresh export
CustomNextRun == get_record_ids_with_custom_status(export_records, TRIAL_DEFINED_ALERTS).result.ids

\* C29: a status written by a set_* function from a template of params.py (TBV, NC,
\* NEXT VISIT, END F/U, SURVEILLANCE AFTER, MRV2 Pending, completion, unreachable,
\* AziVac, birth weight) starts with a code of TRIAL_DEFINED_ALERTS, so the next
\* run's get_record_ids_with_custom_status does not return its participant.
C29_WrittenIsNotCustom ==
    \A op \in SetOps \ {"set_nc_cohort_alerts"} :
        \A p \in WrittenBy(op) :
            /\ \E i \in DOMAIN TRIAL_DEFINED_ALERTS : startswith(status[p], TRIAL_DEFINED_ALERTS[i])
            /\ p \notin CustomNextRun

-----------------------------------------------------------------------------
(* The alerts written after the status: (BW), (AV), (AV-S) *)

SuffixOf ==
    [set_bw_alerts |-> {BW_ALERT}, set_azivac_alerts |-> {AZIVAC_ALERT, AZIVAC_ALERT_SERIOUS}]

\* the next export once child_birth_weight_known is filled in for every participant
BirthWeightKnown ==
    [export_records EXCEPT
        !.rows = [p \in Participants |->
                     [i \in 1..Len(table[p]) |-> table[p][i] @@ [child_birth_weight_known |-> 1]]]]

\* the imports of the next run for a participant the alert no longer applies to
CallsOnceOver(alert) ==
    IF alert = BW_ALERT
    THEN bw_outcome(BirthWeightKnown, None).calls
    ELSE build_azivac(export_records, alert, None, {}, {}).calls
\* the status the removal of the next run sends for p
RemovedText(p, alert) ==
    {CallsOnceOver(alert)[i].data[p] :
        i \in {j \in 1..Len(CallsOnceOver(alert)) :
                  /\ CallsOnceOver(alert)[j].overwrite = "overwrite"
                  /\ p \in DOMAIN CallsOnceOver(alert)[j].data}}

\* C30: when set_bw_alerts or build_azivac has added its code to the status of a
\* participant, the removal of that code by the next run sends the status the
\* participant had before; and a status that already ended with the code is left
\* as it was.
C30_SuffixPreservesBase ==
    \A op \in DOMAIN SuffixOf :
        (last.op = op /\ pc # "raised") =>
            \A p \in last.to_flag, a \in SuffixOf[op] :
                (df.status[p] # NaN /\ endswith(status[p], a)) =>
                    IF endswith(df.status[p][1], a)
                    THEN status[p] = df.status[p][1]
                    ELSE RemovedText(p, a) = {df.status[p][1]}

====
